---- MODULE Spec2Model ----
(***************************************************************************)
(* Model of the QUANT-EVO pipeline:                                        *)
(*   - the single-instance lock of the signal generator                    *)
(*     (src/app64/signal_engine.py, acquire_lock_atomic / release_lock /   *)
(*     ensure_single_instance), specification SpecLock;                    *)
(*   - the execution engine's control loop with its risk gates, the        *)
(*     intent store and the simulation broker (src/app32/main.py,          *)
(*     src/app32/brokers/mock.py), specification Spec;                     *)
(*   - the store's schema bootstrap (src/app32/db.py init_schema),         *)
(*     specification SpecSchema;                                           *)
(*   - the signal generator's quality gates (signal_engine.py main),       *)
(*     specification SpecSignal;                                           *)
(*   - the simulation broker on its own, specification SpecMock.           *)
(* Time is counted in ticks of half a second (TicksPerSec ticks make one   *)
(* second), so that the truncation of a timestamp to whole seconds is      *)
(* visible.                                                                *)
(***************************************************************************)
EXTENDS Integers, Sequences, FiniteSets, TLC

\* ------------------------------------------------------------------------
\* Bounds of the model
\* ------------------------------------------------------------------------
NProcs == 2

\* ticks per second: timestamps with "%H:%M:%S" lose the ticks inside a second
TicksPerSec == 2

\* ticks per trading day (a short day, so that a run crosses midnight)
DayTicks == 8

\* the clock of the first state and the number of ticks a run may last
StartTick == 7
MaxElapsed == 2

\* the store holds at most this many intents in a run
MaxIntents == 2

\* the administrative reset is run at most this often in a run
MaxResets == 1

\* the non-zero signal_ttl_ms an operator may configure, in ticks
TtlTicks == 2
MaxBacklog == 12
MaxLogRows == 3
MaxLegacyRows == 2
MaxInitCalls == 2

\* a run of the generator's loop lasts at most this many seconds, persists at
\* most this many signals and writes at most this many SIGNAL_SKIPPED events
MaxGenSeconds == 6
MaxSignals == 4
MaxSkips == 2

\* a broker instance exercised on its own takes at most this many orders
MaxOrders == 3

\* ------------------------------------------------------------------------
\* Values shared by the definitions below
\* ------------------------------------------------------------------------
\* Python's None where the other values are numbers
None == -1

Procs == 1..NProcs

\* pid of a process that is not running (owner of a stale claim in Init)
DeadPid == 0

\* claim file contents that do not parse as "pid|created_at" or "pid"
Empty == -2
Garbage == -3

\* acquire_lock_atomic has not returned yet
NotReturned == <<FALSE, -4>>

NoFile == [exists |-> FALSE]
\* a ts text that "%Y-%m-%d %H:%M:%S" does not parse
Malformed == -5

VARIABLES
    \* ---- single-instance lock (signal_engine.py) ----
    lockFile,       \* the claim file LOCK_FILE: NoFile or a record
    lpc,            \* control point of each generator process
    attempt,        \* loop variable `attempt` of acquire_lock_atomic
    result,         \* value returned by acquire_lock_atomic, per process
    live,           \* set of running processes (what pid_exists answers)
    posix,          \* TRUE: an open file can be unlinked; FALSE: it cannot
    hooks,          \* processes that registered release_lock with atexit
    dupLog,         \* DUPLICATE_INSTANCE_BLOCKED events written
    exitCode        \* exit status of each terminated process

VARIABLES
    \* ---- clock, configuration file, store (db.py) ----
    now,            \* wall clock in ticks
    cfg,            \* strategy_params.json as it is on disk
    intents,        \* table orders_intent; the row id is the index
    execution_log,  \* table execution_log
    resetLog,       \* RESET_DAILY_COUNTERS audit events
    \* ---- execution engine process (app32/main.py main) ----
    pc,             \* "stopped" or "running"
    engineExit,     \* exit status of the last engine process that exited
    params,         \* the configuration loaded at the start of the cycle
    rows,           \* rows fetched in this cycle and not yet adjudicated
    has_position,
    last_trade_ts,
    buys_today,
    current_day,
    \* ---- MockBroker instance of the engine process ----
    order_counter,
    mock_positions,
    \* ---- history of calls, per intent id ----
    placeCalls,     \* ids passed to broker.place_order, in call order
    updCount        \* number of UPDATE orders_intent statements per id

VARIABLES
    \* ---- database file as init_schema sees it (db.py) ----
    schemaHist,     \* the schema state at the start and after each init_schema call
    initRaised      \* TRUE once an init_schema call has raised

lockVars == <<lockFile, lpc, attempt, result, live, posix, hooks, dupLog, exitCode>>

storeVars == <<now, cfg, intents, execution_log, resetLog>>

engineVars == <<pc, engineExit, params, rows, has_position, last_trade_ts, buys_today,
                current_day, order_counter, mock_positions, placeCalls, updCount>>

VARIABLES
    \* ---- signal generator loop (signal_engine.py main) ----
    recent_signal_ts,           \* (symbol, action) -> time of the last accepted signal
    signal_creation_times,      \* deque of acceptance times (burst window)
    burst_guard_active_until,   \* the burst deadline; 0 before the first burst
    mock_last_seen,             \* symbol -> time of its last accepted signal
    skipLog,                    \* SIGNAL_SKIPPED events of the JSONL log, by reason
    lastCand                    \* the candidate of the last loop iteration and its fate

VARIABLES
    \* ---- a call of place_order made on the broker directly ----
    orderResult     \* the arguments of the last call and the OrderResult it returned

schemaVars == <<schemaHist, initRaised>>

genVars == <<recent_signal_ts, signal_creation_times, burst_guard_active_until,
             mock_last_seen, skipLog, lastCand>>

vars == <<lockVars, storeVars, engineVars, schemaVars, genVars, orderResult>>

\* ========================================================================
\* Schema of the store (db.py init_schema)
\* ========================================================================

\* A database file: whether each table exists, which of the columns that the
\* migrations add it has, whether the index exists, and the rows of
\* orders_intent by ts and trade_day (NULL is None; a column not yet there
\* reads as None, as it does once ALTER TABLE has added it).
OptionalIntentCols == {"created_at", "trade_day"}
OptionalLogCols == {"order_id"}

EmptyDb ==
    [oi |-> FALSE, oi_cols |-> {}, el |-> FALSE, el_cols |-> {}, idx |-> FALSE,
     data |-> <<>>]

MigratedDb ==
    [oi |-> TRUE, oi_cols |-> OptionalIntentCols, el |-> TRUE,
     el_cols |-> OptionalLogCols, idx |-> TRUE, data |-> <<>>]

\* the outcome of a statement: the database after it, and whether it raised
Ok(d) == [db |-> d, err |-> FALSE]
Raise(d) == [db |-> d, err |-> TRUE]

\* mutant: CREATE TABLE without IF NOT EXISTS
CreateTables_NoGuard(d) ==
    IF d.oi \/ d.el THEN Raise(d)
    ELSE Ok([d EXCEPT !.oi = TRUE, !.oi_cols = OptionalIntentCols,
                      !.el = TRUE, !.el_cols = OptionalLogCols])

\* executescript: CREATE TABLE IF NOT EXISTS orders_intent (...);
\* CREATE TABLE IF NOT EXISTS execution_log (...), each with every column
CreateTables(d) ==
    Ok([d EXCEPT !.oi = TRUE,
                 !.oi_cols = IF d.oi THEN @ ELSE OptionalIntentCols,
                 !.el = TRUE,
                 !.el_cols = IF d.el THEN @ ELSE OptionalLogCols])

TableExists(d, table) == IF table = "orders_intent" THEN d.oi ELSE d.el
TableCols(d, table) == IF table = "orders_intent" THEN d.oi_cols ELSE d.el_cols

\* _column_exists: PRAGMA table_info names the column
column_exists(d, table, col) == col \in TableCols(d, table)

\* ALTER TABLE t ADD COLUMN c: OperationalError for a missing table or a
\* duplicate column; the rows get NULL in the new column
AlterAddColumn(d, table, col) ==
    IF ~TableExists(d, table) \/ col \in TableCols(d, table) THEN Raise(d)
    ELSE IF table = "orders_intent"
         THEN Ok([d EXCEPT !.oi_cols = @ \cup {col}])
         ELSE Ok([d EXCEPT !.el_cols = @ \cup {col}])

\* migrations 1 to 3: if not _column_exists(...): try ALTER TABLE, an
\* OperationalError is printed and skipped
Migrate(d, table, col) ==
    IF column_exists(d, table, col) THEN d
    ELSE AlterAddColumn(d, table, col).db

\* SQLite DATE(ts): the date part of the text, NULL for a text that is no
\* timestamp
DATE(ts) == IF ts = Malformed THEN None ELSE ts \div DayTicks

\* migration 4: UPDATE orders_intent SET trade_day = DATE(ts) WHERE
\* trade_day IS NULL, when the count of such rows is positive; an
\* OperationalError (no such column) is printed and skipped
Backfill(d) ==
    IF ~d.oi \/ "trade_day" \notin d.oi_cols THEN d
    ELSE IF \A k \in DOMAIN d.data : d.data[k].trade_day # None THEN d
    ELSE [d EXCEPT !.data =
            [k \in DOMAIN d.data |->
                IF d.data[k].trade_day = None
                THEN [d.data[k] EXCEPT !.trade_day = DATE(d.data[k].ts)]
                ELSE d.data[k]]]

\* CREATE INDEX IF NOT EXISTS ... ON orders_intent (trade_day, status,
\* action); an OperationalError is printed and skipped
CreateIndex(d) ==
    IF ~d.oi \/ "trade_day" \notin d.oi_cols THEN d
    ELSE [d EXCEPT !.idx = TRUE]

\* init_schema(conn): the script, the three column migrations, the backfill,
\* the index; only the script runs outside a try
init_schema(d) ==
    LET created == CreateTables(d)
    IN  IF created.err THEN created
        ELSE Ok(CreateIndex(Backfill(
                Migrate(Migrate(Migrate(created.db,
                    "orders_intent", "created_at"),
                    "orders_intent", "trade_day"),
                    "execution_log", "order_id"))))

\* rows of a legacy orders_intent table
LegacyRow ==
    [ts : {StartTick, StartTick + 1, Malformed},
     trade_day : {None, StartTick \div DayTicks, (StartTick + 1) \div DayTicks}]

LegacyData == UNION {[1..n -> LegacyRow] : n \in 0..MaxLegacyRows}

\* the schema states a database file can be in before init_schema runs: no
\* table, tables of any earlier version, or the current schema
PriorDbs ==
    {d \in [oi : BOOLEAN, oi_cols : SUBSET OptionalIntentCols,
             el : BOOLEAN, el_cols : SUBSET OptionalLogCols,
             idx : BOOLEAN, data : LegacyData] :
        /\ ~d.oi => (d.oi_cols = {} /\ d.data = <<>>)
        /\ ~d.el => d.el_cols = {}
        /\ d.idx => "trade_day" \in d.oi_cols
        /\ "trade_day" \notin d.oi_cols =>
              \A k \in DOMAIN d.data : d.data[k].trade_day = None}

\* the database file now
db == schemaHist[Len(schemaHist)]

\* ========================================================================
\* Signal generator: quality gates (signal_engine.py main)
\* ========================================================================

\* scores are counted in hundredths
TEST_MODE_THRESHOLD == 62
DUPLICATE_COOLDOWN_SEC == 10
BURST_GUARD_WINDOW_SEC == 5
BURST_GUARD_LIMIT == 3

\* params.get("dedupe_window_sec", 5)
DedupeWindowSec == 5

\* mock_symbols of a configuration with two symbols
GenSymbols == {"005930", "000660"}

\* clamp(random.gauss(...), 0.0, 1.0): just below the threshold and the
\* threshold itself
Scores == {TEST_MODE_THRESHOLD - 1, TEST_MODE_THRESHOLD}

\* the score of a signal that passed the generator's gates
AcceptedScore == TEST_MODE_THRESHOLD + 8

NoCand == [sym |-> "", action |-> "", score |-> 0, reason |-> ""]

\* the generator's loop variables as main() initialises them; a key that is
\* absent from a dict is None
GenIdle ==
    /\ recent_signal_ts = [k \in GenSymbols \X {"BUY", "SELL"} |-> None]
    /\ signal_creation_times = <<>>
    /\ burst_guard_active_until = 0
    /\ mock_last_seen = [sym \in GenSymbols |-> None]
    /\ skipLog = <<>>
    /\ lastCand = NoCand

\* OrderResult.order_id = None
NoOrderId == <<>>

NoCall ==
    [symbol |-> "", action |-> "", quantity |-> 0,
     success |-> FALSE, order_id |-> NoOrderId, reason |-> ""]

\* the schema while the lock or the engine is exercised: migrated, and
\* init_schema at each start leaves it as it is
SchemaIdle ==
    /\ schemaHist = <<MigratedDb>>
    /\ initRaised = FALSE

\* ========================================================================
\* Single-instance lock
\* ========================================================================

\* mutant: every recorded pid is taken for a running process
pid_exists_Always(pid) == TRUE

\* mutant: every recorded pid is taken for a dead process
pid_exists_Never(pid) == FALSE

\* pid_exists(pid): the process table lookup
pid_exists(pid) == pid \in live

\* the claim file as written by a finished acquire of process pid
ClaimOf(pid) == [exists |-> TRUE, content |-> pid, creator |-> pid, open |-> FALSE]

\* mutant: the unlink never removes the file
Unlink_Fails(f, p) == f

\* LOCK_FILE.unlink() inside try/except-all: the file is removed unless it is
\* absent or (not posix) still held open by the process that created it
Unlink(f, p) ==
    IF ~f.exists THEN f
    ELSE IF f.open /\ f.creator # p /\ ~posix THEN f
    ELSE NoFile

\* ------------------------------------------------------------------------
\* Configuration (strategy_params.json).  A key that is absent is None; the
\* JSON booleans are 1 and 0.  An absent max_orders_per_day reads as 0 (no
\* limit) and an absent one_position_only as true, so each gate is on in
\* some configurations and off in others, by a written value or by default.
\* ------------------------------------------------------------------------
CfgGet(v, default) == IF v = None THEN default ELSE v

Configs ==
    [signal_ttl_ms : {0, TtlTicks},
     cooldown_sec : {0, 1},
     max_orders_per_day : {None, 1},
     one_position_only : {None, 0}]

\* mock_symbols, the symbols the generator draws from (the default list)
MockSymbols == {"005930"}

\* the state of the engine side while only the lock is exercised
EngineIdle ==
    /\ now = StartTick
    /\ cfg = [signal_ttl_ms |-> 0, cooldown_sec |-> 0,
              max_orders_per_day |-> None, one_position_only |-> None]
    /\ intents = <<>>
    /\ execution_log = <<>>
    /\ resetLog = <<>>
    /\ pc = "stopped"
    /\ engineExit = None
    /\ params = cfg
    /\ rows = <<>>
    /\ has_position = FALSE
    /\ last_trade_ts = 0
    /\ buys_today = 0
    /\ current_day = 0
    /\ order_counter = 0
    /\ mock_positions = [s \in MockSymbols |-> 0]
    /\ placeCalls = <<>>
    /\ updCount = <<>>

\* the state of the lock side while only the engine is exercised
LockIdle ==
    /\ lockFile = NoFile
    /\ lpc = [p \in Procs |-> "init"]
    /\ attempt = [p \in Procs |-> 0]
    /\ result = [p \in Procs |-> NotReturned]
    /\ live = Procs
    /\ posix = TRUE
    /\ hooks = {}
    /\ dupLog = <<>>
    /\ exitCode = [p \in Procs |-> None]

InitLock ==
    /\ EngineIdle
    /\ SchemaIdle
    /\ GenIdle
    /\ orderResult = NoCall
    /\ lockFile \in {NoFile,
                     ClaimOf(DeadPid),
                     [exists |-> TRUE, content |-> Garbage, creator |-> DeadPid, open |-> FALSE]}
    /\ lpc = [p \in Procs |-> "init"]
    /\ attempt = [p \in Procs |-> 0]
    /\ result = [p \in Procs |-> NotReturned]
    /\ live = Procs
    /\ posix \in BOOLEAN
    /\ hooks = {}
    /\ dupLog = <<>>
    /\ exitCode = [p \in Procs |-> None]

\* main() -> ensure_single_instance() -> acquire_lock_atomic(): enter the loop
StartAcquire(p) ==
    /\ lpc[p] = "init"
    /\ UNCHANGED <<storeVars, engineVars>>
    /\ UNCHANGED schemaVars
    /\ UNCHANGED genVars
    /\ UNCHANGED orderResult
    /\ lpc' = [lpc EXCEPT ![p] = "try"]
    /\ attempt' = [attempt EXCEPT ![p] = 0]
    /\ UNCHANGED <<lockFile, result, live, posix, hooks, dupLog, exitCode>>

\* os.open(LOCK_FILE, O_CREAT|O_EXCL|O_WRONLY): creates an empty file, or
\* raises FileExistsError: on attempt 0 go on to read the claim, on attempt 1
\* return (False, None)
TryCreate(p) ==
    /\ lpc[p] = "try"
    /\ UNCHANGED <<storeVars, engineVars>>
    /\ UNCHANGED schemaVars
    /\ UNCHANGED genVars
    /\ UNCHANGED orderResult
    /\ IF ~lockFile.exists
       THEN /\ lockFile' = [exists |-> TRUE, content |-> Empty, creator |-> p, open |-> TRUE]
            /\ lpc' = [lpc EXCEPT ![p] = "write"]
            /\ UNCHANGED result
       ELSE IF attempt[p] = 0
       THEN /\ lpc' = [lpc EXCEPT ![p] = "read"]
            /\ UNCHANGED <<lockFile, result>>
       ELSE /\ lpc' = [lpc EXCEPT ![p] = "blocked"]
            /\ result' = [result EXCEPT ![p] = <<FALSE, None>>]
            /\ UNCHANGED lockFile
    /\ UNCHANGED <<attempt, live, posix, hooks, dupLog, exitCode>>

\* f.write(lock_content); close; return (True, None).  The write goes to the
\* file this process created: if that file was unlinked meanwhile the claim
\* file found under the name is left as it is.
WriteClaim(p) ==
    /\ lpc[p] = "write"
    /\ UNCHANGED <<storeVars, engineVars>>
    /\ UNCHANGED schemaVars
    /\ UNCHANGED genVars
    /\ UNCHANGED orderResult
    /\ lockFile' = IF lockFile.exists /\ lockFile.creator = p /\ lockFile.open
                   THEN ClaimOf(p)
                   ELSE lockFile
    /\ result' = [result EXCEPT ![p] = <<TRUE, None>>]
    /\ lpc' = [lpc EXCEPT ![p] = "acquired"]
    /\ UNCHANGED <<attempt, live, posix, hooks, dupLog, exitCode>>

\* mutant: a corrupted or unreadable claim blocks the caller at once
ReadClaim_NoCleanup(p) ==
    /\ lpc[p] = "read"
    /\ UNCHANGED <<storeVars, engineVars>>
    /\ UNCHANGED schemaVars
    /\ UNCHANGED genVars
    /\ UNCHANGED orderResult
    /\ IF lockFile.exists /\ lockFile.content \notin {Empty, Garbage}
          /\ ~pid_exists(lockFile.content)
       THEN /\ lpc' = [lpc EXCEPT ![p] = "unlink"]
            /\ UNCHANGED result
       ELSE /\ lpc' = [lpc EXCEPT ![p] = "blocked"]
            /\ result' = [result EXCEPT ![p] =
                  <<FALSE, IF lockFile.exists /\ lockFile.content \in Procs
                           THEN lockFile.content ELSE None>>]
    /\ UNCHANGED <<lockFile, attempt, live, posix, hooks, dupLog, exitCode>>

\* attempt 0 after FileExistsError: read the claim, parse the pid, ask
\* pid_exists.  Unreadable (absent meanwhile) or unparsable: cleanup path.
ReadClaim(p) ==
    /\ lpc[p] = "read"
    /\ UNCHANGED <<storeVars, engineVars>>
    /\ UNCHANGED schemaVars
    /\ UNCHANGED genVars
    /\ UNCHANGED orderResult
    /\ IF ~lockFile.exists \/ lockFile.content \in {Empty, Garbage}
       THEN /\ lpc' = [lpc EXCEPT ![p] = "unlink"]
            /\ UNCHANGED result
       ELSE IF ~pid_exists(lockFile.content)
       THEN /\ lpc' = [lpc EXCEPT ![p] = "unlink"]
            /\ UNCHANGED result
       ELSE /\ lpc' = [lpc EXCEPT ![p] = "blocked"]
            /\ result' = [result EXCEPT ![p] = <<FALSE, lockFile.content>>]
    /\ UNCHANGED <<lockFile, attempt, live, posix, hooks, dupLog, exitCode>>

\* try: LOCK_FILE.unlink() except: pass; continue  (stale or corrupted claim)
UnlinkClaim(p) ==
    /\ lpc[p] = "unlink"
    /\ UNCHANGED <<storeVars, engineVars>>
    /\ UNCHANGED schemaVars
    /\ UNCHANGED genVars
    /\ UNCHANGED orderResult
    /\ lockFile' = Unlink(lockFile, p)
    /\ attempt' = [attempt EXCEPT ![p] = 1]
    /\ lpc' = [lpc EXCEPT ![p] = "try"]
    /\ UNCHANGED <<result, live, posix, hooks, dupLog, exitCode>>

\* ensure_single_instance, acquired: atexit.register(release_lock)
RegisterHook(p) ==
    /\ lpc[p] = "acquired"
    /\ UNCHANGED <<storeVars, engineVars>>
    /\ UNCHANGED schemaVars
    /\ UNCHANGED genVars
    /\ UNCHANGED orderResult
    /\ hooks' = hooks \cup {p}
    /\ lpc' = [lpc EXCEPT ![p] = "running"]
    /\ UNCHANGED <<lockFile, attempt, result, live, posix, dupLog, exitCode>>

\* mutant: the blocked caller logs the event and goes on into main()
BlockedExit_Proceeds(p) ==
    /\ lpc[p] = "blocked"
    /\ UNCHANGED <<storeVars, engineVars>>
    /\ UNCHANGED schemaVars
    /\ UNCHANGED genVars
    /\ UNCHANGED orderResult
    /\ dupLog' = Append(dupLog, [current_pid |-> p, existing_pid |-> result[p][2]])
    /\ lpc' = [lpc EXCEPT ![p] = "running"]
    /\ UNCHANGED <<lockFile, attempt, result, live, posix, hooks, exitCode>>

\* ensure_single_instance, not acquired: log_duplicate_instance; sys.exit(1)
BlockedExit(p) ==
    /\ lpc[p] = "blocked"
    /\ UNCHANGED <<storeVars, engineVars>>
    /\ UNCHANGED schemaVars
    /\ UNCHANGED genVars
    /\ UNCHANGED orderResult
    /\ dupLog' = Append(dupLog, [current_pid |-> p, existing_pid |-> result[p][2]])
    /\ lpc' = [lpc EXCEPT ![p] = "exited"]
    /\ exitCode' = [exitCode EXCEPT ![p] = 1]
    /\ live' = live \ {p}
    /\ UNCHANGED <<lockFile, attempt, result, posix, hooks>>

\* the generator leaves main() (exception, KeyboardInterrupt, sys.exit): the
\* interpreter runs the atexit hooks, release_lock first tests LOCK_FILE.exists()
ExitProcess(p) ==
    /\ lpc[p] = "running"
    /\ UNCHANGED <<storeVars, engineVars>>
    /\ UNCHANGED schemaVars
    /\ UNCHANGED genVars
    /\ UNCHANGED orderResult
    /\ lpc' = [lpc EXCEPT ![p] = "rel_exists"]
    /\ UNCHANGED <<lockFile, attempt, result, live, posix, hooks, dupLog, exitCode>>

Terminated(p) ==
    /\ lpc' = [lpc EXCEPT ![p] = "exited"]
    /\ exitCode' = [exitCode EXCEPT ![p] = 0]
    /\ live' = live \ {p}

\* release_lock: if LOCK_FILE.exists()
ReleaseExists(p) ==
    /\ lpc[p] = "rel_exists"
    /\ UNCHANGED <<storeVars, engineVars>>
    /\ UNCHANGED schemaVars
    /\ UNCHANGED genVars
    /\ UNCHANGED orderResult
    /\ IF lockFile.exists
       THEN /\ lpc' = [lpc EXCEPT ![p] = "rel_read"]
            /\ UNCHANGED <<live, exitCode>>
       ELSE Terminated(p)
    /\ UNCHANGED <<lockFile, attempt, result, posix, hooks, dupLog>>

\* release_lock: read and parse the claim, compare with os.getpid()
ReleaseRead(p) ==
    /\ lpc[p] = "rel_read"
    /\ UNCHANGED <<storeVars, engineVars>>
    /\ UNCHANGED schemaVars
    /\ UNCHANGED genVars
    /\ UNCHANGED orderResult
    /\ IF lockFile.exists /\ lockFile.content = p
       THEN /\ lpc' = [lpc EXCEPT ![p] = "rel_unlink"]
            /\ UNCHANGED <<live, exitCode>>
       ELSE Terminated(p)
    /\ UNCHANGED <<lockFile, attempt, result, posix, hooks, dupLog>>

\* release_lock: LOCK_FILE.unlink() (inside try/except Exception)
ReleaseUnlink(p) ==
    /\ lpc[p] = "rel_unlink"
    /\ UNCHANGED <<storeVars, engineVars>>
    /\ UNCHANGED schemaVars
    /\ UNCHANGED genVars
    /\ UNCHANGED orderResult
    /\ lockFile' = Unlink(lockFile, p)
    /\ Terminated(p)
    /\ UNCHANGED <<attempt, result, posix, hooks, dupLog>>

\* the process is ended by a signal it does not handle (SIGTERM, SIGKILL) or
\* by power loss: no atexit hook runs
Kill(p) ==
    /\ p \in live
    /\ UNCHANGED <<storeVars, engineVars>>
    /\ UNCHANGED schemaVars
    /\ UNCHANGED genVars
    /\ UNCHANGED orderResult
    /\ lpc[p] \notin {"init", "exited", "killed"}
    /\ lpc' = [lpc EXCEPT ![p] = "killed"]
    /\ live' = live \ {p}
    /\ lockFile' = IF lockFile.exists /\ lockFile.creator = p /\ lockFile.open
                   THEN [lockFile EXCEPT !.open = FALSE]
                   ELSE lockFile
    /\ UNCHANGED <<attempt, result, posix, hooks, dupLog, exitCode>>

NextLock ==
    \E p \in Procs :
        \/ StartAcquire(p)
        \/ TryCreate(p)
        \/ WriteClaim(p)
        \/ ReadClaim(p)
        \/ UnlinkClaim(p)
        \/ RegisterHook(p)
        \/ BlockedExit(p)
        \/ ExitProcess(p)
        \/ ReleaseExists(p)
        \/ ReleaseRead(p)
        \/ ReleaseUnlink(p)
        \/ Kill(p)

SpecLock == InitLock /\ [][NextLock]_vars

\* processes run one after the other: acquire is called only while no other
\* process is between its acquire and its termination
StartAcquireAfterOthers(p) ==
    /\ \A q \in Procs \ {p} : lpc[q] \in {"init", "exited", "killed"}
    /\ StartAcquire(p)

NextSequential ==
    \E p \in Procs :
        \/ StartAcquireAfterOthers(p)
        \/ TryCreate(p)
        \/ WriteClaim(p)
        \/ ReadClaim(p)
        \/ UnlinkClaim(p)
        \/ RegisterHook(p)
        \/ ExitProcess(p)
        \/ ReleaseExists(p)
        \/ ReleaseRead(p)
        \/ ReleaseUnlink(p)
        \/ Kill(p)

SpecSequential == InitLock /\ [][NextSequential]_vars

\* the lock started on a claim file left by a process that is gone
InitStale ==
    /\ InitLock
    /\ lockFile = ClaimOf(DeadPid)

SpecStale == InitStale /\ [][NextLock]_vars

\* the lock started on a claim file whose content is not a pid
InitCorrupt ==
    /\ InitLock
    /\ lockFile.exists
    /\ lockFile.content = Garbage

SpecCorrupt == InitCorrupt /\ [][NextLock]_vars

\* processes that hold an Acquired result they have not released
Holders == {p \in Procs : lpc[p] \in {"acquired", "running"}}

\* C1: at most one live process at a time holds an Acquired result it has
\* not yet released, from any initial claim-file state and in every
\* interleaving of acquire and release steps.
C1_MutualExclusion == Cardinality(Holders) <= 1

\* ========================================================================
\* Clock and dates
\* ========================================================================

\* now(): "%Y-%m-%d %H:%M:%S", the instant t cut to whole seconds
now_str(t) == (t \div TicksPerSec) * TicksPerSec

\* datetime.strptime(ts.split('.')[0], "%Y-%m-%d %H:%M:%S")
ParseSeconds(ts) == (ts \div TicksPerSec) * TicksPerSec

\* get_kst_date(): the calendar day of the instant t in UTC+9
get_kst_date(t) == t \div DayTicks

\* today_prefix(): the calendar day of the host clock (a host running in KST)
today_prefix(t) == t \div DayTicks

\* ========================================================================
\* Intent store
\* ========================================================================

NoReason == "NULL"

\* SELECT COUNT(*) ... WHERE status='SENT' AND action='BUY' AND trade_day=?
count_sent_buy_today(store, trade_day) ==
    Cardinality({i \in DOMAIN store :
                    /\ store[i].status = "SENT"
                    /\ store[i].action = "BUY"
                    /\ store[i].trade_day = trade_day})

\* LIMIT of the pending fetch
BatchLimit == 10

Ids(store) == [i \in 1..Len(store) |-> i]

\* mutant: the pending fetch without its WHERE status='NEW'
FetchPending_AnyStatus(store) ==
    SubSeq(Ids(store), 1, IF Len(store) < BatchLimit THEN Len(store) ELSE BatchLimit)

\* mutant: the pending fetch returns no row
FetchPending_None(store) == <<>>

\* mutant: the pending fetch without its LIMIT
FetchPending_NoLimit(store) ==
    SelectSeq(Ids(store), LAMBDA i : store[i].status = "NEW")

\* SELECT id, ... WHERE status='NEW' ORDER BY id ASC LIMIT 10
FetchPending(store) ==
    LET pending == SelectSeq(Ids(store), LAMBDA i : store[i].status = "NEW")
    IN  SubSeq(pending, 1, IF Len(pending) < BatchLimit THEN Len(pending) ELSE BatchLimit)

\* mutant: the UPDATE of the status is lost
SetStatus_Lost(store, id, st) == store

\* UPDATE orders_intent SET status=? WHERE id=?
SetStatus(store, id, st) == [store EXCEPT ![id].status = st]

\* mutant: the UPDATE without its trade_day condition
ResetRows_AnyDay(store, trade_day) ==
    {i \in DOMAIN store :
        /\ store[i].status = "SENT"
        /\ store[i].action = "BUY"}

\* UPDATE orders_intent SET status='PROCESSED'
\*   WHERE status='SENT' AND action='BUY' AND trade_day=?
ResetRows(store, trade_day) ==
    {i \in DOMAIN store :
        /\ store[i].status = "SENT"
        /\ store[i].action = "BUY"
        /\ store[i].trade_day = trade_day}

reset_daily_counters(store, trade_day) ==
    [i \in DOMAIN store |->
        IF i \in ResetRows(store, trade_day)
        THEN [store[i] EXCEPT !.status = "PROCESSED"]
        ELSE store[i]]

\* a row of execution_log (columns that carry no decision are left out)
LogRow(module, id, it, decision, reason, context, latency, order_id) ==
    [module |-> module, intent |-> id, symbol |-> it.symbol, action |-> it.action,
     decision |-> decision, rejection_reason |-> reason, context |-> context,
     latency_ms |-> latency, order_id |-> order_id]

\* ========================================================================
\* Risk gates of the execution engine, as the loop body tests them
\* ========================================================================

\* age_ms = (datetime.now() - strptime(ts.split('.')[0])) in ticks
age_ms(it, t) == t - ParseSeconds(it.ts)

\* if ttl_ms > 0: ... if age_ms > ttl_ms
TtlGate(it, t, prm) ==
    LET ttl_ms == CfgGet(prm.signal_ttl_ms, 0)
    IN  ttl_ms > 0 /\ age_ms(it, t) > ttl_ms

\* mutant: the limit is compared with > instead of >=
DailyLimitGate_Strict(it, bt, prm) ==
    LET max_orders == CfgGet(prm.max_orders_per_day, 0)
    IN  it.action = "BUY" /\ max_orders # 0 /\ max_orders > 0 /\ bt > max_orders

\* mutant: the limit is applied to SELL as well
DailyLimitGate_AnyAction(it, bt, prm) ==
    LET max_orders == CfgGet(prm.max_orders_per_day, 0)
    IN  max_orders # 0 /\ max_orders > 0 /\ bt >= max_orders

\* if action == "BUY" and max_orders and max_orders > 0: if buys_today >= max_orders
DailyLimitGate(it, bt, prm) ==
    LET max_orders == CfgGet(prm.max_orders_per_day, 0)
    IN  it.action = "BUY" /\ max_orders # 0 /\ max_orders > 0 /\ bt >= max_orders

\* mutant: the cooldown is compared with <= instead of <
CooldownGate_Inclusive(it, t, last, prm) ==
    LET cooldown_sec == CfgGet(prm.cooldown_sec, 0)
    IN  it.action = "BUY" /\ cooldown_sec > 0 /\ (t - last) <= cooldown_sec * TicksPerSec

\* if action == "BUY" and cooldown_sec > 0: if (now_ts - last_trade_ts) < cooldown_sec
CooldownGate(it, t, last, prm) ==
    LET cooldown_sec == CfgGet(prm.cooldown_sec, 0)
    IN  it.action = "BUY" /\ cooldown_sec > 0 /\ (t - last) < cooldown_sec * TicksPerSec

\* mutant: an absent one_position_only key means off
OnePositionGate_DefaultOff(it, hp, prm) ==
    CfgGet(prm.one_position_only, 0) # 0 /\ hp /\ it.action = "BUY"

\* if params.get("one_position_only", True): if has_position and action == "BUY"
OnePositionGate(it, hp, prm) ==
    CfgGet(prm.one_position_only, 1) # 0 /\ hp /\ it.action = "BUY"

\* mutant: no gate rejects
RiskGates_AllPass(it, t, bt, last, hp, prm) == "PASS"

\* mutant: the daily-limit gate is tested before the TTL gate
RiskGates_DailyFirst(it, t, bt, last, hp, prm) ==
    IF DailyLimitGate(it, bt, prm) THEN "DAILY_LIMIT"
    ELSE IF TtlGate(it, t, prm) THEN "TTL_EXPIRED"
    ELSE IF CooldownGate(it, t, last, prm) THEN "COOLDOWN"
    ELSE IF OnePositionGate(it, hp, prm) THEN "ONE_POSITION"
    ELSE "PASS"

\* the chain of gates of the loop body: the reason of the first gate that
\* rejects, or "PASS"
RiskGates(it, t, bt, last, hp, prm) ==
    IF TtlGate(it, t, prm) THEN "TTL_EXPIRED"
    ELSE IF DailyLimitGate(it, bt, prm) THEN "DAILY_LIMIT"
    ELSE IF CooldownGate(it, t, last, prm) THEN "COOLDOWN"
    ELSE IF OnePositionGate(it, hp, prm) THEN "ONE_POSITION"
    ELSE "PASS"

\* the context string written with a rejection
GateContext(reason, it, t, bt, last, prm) ==
    IF reason = "TTL_EXPIRED"
    THEN [age_ms |-> age_ms(it, t), ttl_ms |-> CfgGet(prm.signal_ttl_ms, 0)]
    ELSE IF reason = "DAILY_LIMIT"
    THEN [buys_today |-> bt, max_orders_per_day |-> CfgGet(prm.max_orders_per_day, 0)]
    ELSE IF reason = "COOLDOWN"
    THEN [elapsed_sec |-> t - last,
          remaining_sec |-> CfgGet(prm.cooldown_sec, 0) * TicksPerSec - (t - last),
          cooldown_sec |-> CfgGet(prm.cooldown_sec, 0)]
    ELSE [has_position |-> TRUE]

\* latency_ms of the loop body: created_at is written by the generator as
\* ISO 8601 ("...T...Z"), which "%Y-%m-%d %H:%M:%S" does not parse, so the
\* latency is None; only a row without created_at falls back to ts
latency_ms(it, t) ==
    IF it.created_at # None \/ it.ts = Malformed THEN None
    ELSE t - ParseSeconds(it.ts)

\* the strptime of the TTL check (outside any try) raises ValueError: the
\* check is on and the ts text is malformed
ParseRaises(it, prm) == CfgGet(prm.signal_ttl_ms, 0) > 0 /\ it.ts = Malformed

\* ========================================================================
\* Broker
\* ========================================================================

\* BrokerInterface.validate_order: "" when valid, else the error message
\* mutant: the validation without the check of the symbol
validate_order_NoSymbol(symbol, action, quantity) ==
    IF action \notin {"BUY", "SELL"} THEN "Invalid action"
    ELSE IF quantity <= 0 THEN "Invalid quantity"
    ELSE ""

validate_order(symbol, action, quantity) ==
    IF action \notin {"BUY", "SELL"} THEN "Invalid action"
    ELSE IF quantity <= 0 THEN "Invalid quantity"
    ELSE IF symbol = "" THEN "Invalid symbol: empty"
    ELSE ""

\* mutant: a SELL is not floored at zero
LedgerAfter_NoFloor(ledger, symbol, action, quantity) ==
    [ledger EXCEPT ![symbol] = IF action = "BUY" THEN @ + quantity ELSE @ - quantity]

\* MockBroker.place_order: the ledger after an accepted order
LedgerAfter(ledger, symbol, action, quantity) ==
    [ledger EXCEPT ![symbol] =
        IF action = "BUY" THEN @ + quantity
        ELSE IF @ - quantity > 0 THEN @ - quantity ELSE 0]

\* mutant: the order id without the counter
OrderId_NoCounter(t, counter) == <<now_str(t), 0>>

\* order id f"MOCK_{utc second}_{order_counter:04d}"
OrderId(t, counter) == <<now_str(t), counter>>

\* MockBroker.place_order on a broker with this counter and ledger: the
\* OrderResult, the counter and the ledger after the call, and the
\* invocations of execution_log_callback
place_order(counter, ledger, symbol, action, quantity, t) ==
    LET error == validate_order(symbol, action, quantity)
        order_id == OrderId(t, counter + 1)
    IN  IF error # ""
        THEN [result |-> [success |-> FALSE, order_id |-> NoOrderId, reason |-> error],
              order_counter |-> counter,
              mock_positions |-> ledger,
              callbacks |-> <<>>]
        ELSE [result |-> [success |-> TRUE, order_id |-> order_id,
                          reason |-> "Order placed successfully (MOCK)"],
              order_counter |-> counter + 1,
              mock_positions |-> LedgerAfter(ledger, symbol, action, quantity),
              callbacks |-> <<[symbol |-> symbol, action |-> action,
                               order_id |-> order_id, status |-> "SENT"]>>]

\* mutant: a successful SELL updates the runtime state as a BUY does
EngineStateAfter_AnyAction(success, action, t, hp, last, bt) ==
    IF success
    THEN [has_position |-> TRUE, last_trade_ts |-> t, buys_today |-> bt + 1]
    ELSE [has_position |-> hp, last_trade_ts |-> last, buys_today |-> bt]

\* mutant: a BUY updates the runtime state also when place_order failed
EngineStateAfter_OnFailure(success, action, t, hp, last, bt) ==
    IF action = "BUY"
    THEN [has_position |-> TRUE, last_trade_ts |-> t, buys_today |-> bt + 1]
    ELSE [has_position |-> hp, last_trade_ts |-> last, buys_today |-> bt]

\* the engine's runtime state after place_order returned: a failure result
\* ends the iteration (continue); after a success only a BUY sets
\* has_position, last_trade_ts = time.time() and buys_today += 1
EngineStateAfter(success, action, t, hp, last, bt) ==
    IF success /\ action = "BUY"
    THEN [has_position |-> TRUE, last_trade_ts |-> t, buys_today |-> bt + 1]
    ELSE [has_position |-> hp, last_trade_ts |-> last, buys_today |-> bt]

\* ========================================================================
\* Actions of the engine side
\* ========================================================================

\* a row as the generator inserts it: ts = now(), created_at = now_iso(),
\* trade_day = get_kst_date(), ttl_ms = the configured signal_ttl_ms
NewIntent(sym, action, t, c) ==
    [symbol |-> sym, action |-> action, ts |-> now_str(t), created_at |-> t,
     trade_day |-> get_kst_date(t), ttl_ms |-> c.signal_ttl_ms,
     ai_score |-> AcceptedScore, status |-> "NEW"]

Init ==
    /\ LockIdle
    /\ SchemaIdle
    /\ GenIdle
    /\ orderResult = NoCall
    /\ now = StartTick
    /\ cfg \in Configs
    /\ intents = <<>>
    /\ execution_log = <<>>
    /\ resetLog = <<>>
    /\ pc = "stopped"
    /\ engineExit = None
    /\ params = cfg
    /\ rows = <<>>
    /\ has_position = FALSE
    /\ last_trade_ts = 0
    /\ buys_today = 0
    /\ current_day = 0
    /\ order_counter = 0
    /\ mock_positions = [s \in MockSymbols |-> 0]
    /\ placeCalls = <<>>
    /\ updCount = [i \in 1..Len(intents) |-> 0]

\* time passes
Tick ==
    /\ now < StartTick + MaxElapsed
    /\ now' = now + 1
    /\ UNCHANGED <<cfg, intents, execution_log, resetLog>>
    /\ UNCHANGED <<lockVars, engineVars>>
    /\ UNCHANGED schemaVars
    /\ UNCHANGED genVars
    /\ UNCHANGED orderResult

\* signal generator, accepted candidate: INSERT INTO orders_intent ... 'NEW'
\* (the generator's own CREATED row of execution_log is not an adjudication
\* and is left out of this table)
GenInsert ==
    /\ Len(intents) < MaxIntents
    /\ \E sym \in MockSymbols, action \in {"BUY", "SELL"} :
        LET it == NewIntent(sym, action, now, cfg)
            id == Len(intents) + 1
        IN  /\ intents' = Append(intents, it)
            /\ updCount' = Append(updCount, 0)
    /\ UNCHANGED <<now, cfg, execution_log, resetLog>>
    /\ UNCHANGED <<pc, engineExit, params, rows, has_position, last_trade_ts, buys_today,
                   current_day, order_counter, mock_positions, placeCalls>>
    /\ UNCHANGED lockVars
    /\ UNCHANGED schemaVars
    /\ UNCHANGED genVars
    /\ UNCHANGED orderResult

\* main() up to the loop, on the store it finds: a fresh MockBroker,
\* has_position = False, last_trade_ts = 0.0, current_day = today_prefix(),
\* buys_today = count_sent_buy_today(conn)
MainInit(store) ==
    /\ pc' = "running"
    /\ engineExit' = None
    /\ params' = cfg
    /\ rows' = <<>>
    /\ has_position' = FALSE
    /\ last_trade_ts' = 0
    /\ current_day' = today_prefix(now)
    /\ buys_today' = count_sent_buy_today(store, get_kst_date(now))
    /\ order_counter' = 0
    /\ mock_positions' = [s \in MockSymbols |-> 0]

\* python app32/main.py: the __main__ block without the reset flag, then main()
EngineStart ==
    /\ pc = "stopped"
    /\ MainInit(intents)
    /\ UNCHANGED <<placeCalls, updCount>>
    /\ UNCHANGED <<lockVars, storeVars>>
    /\ UNCHANGED schemaVars
    /\ UNCHANGED genVars
    /\ UNCHANGED orderResult

\* mutant: the flag without ALLOW_RESET=1 resets the rows all the same
ResetRefused_Proceeds ==
    /\ pc = "stopped"
    /\ engineExit' = 1
    /\ intents' = reset_daily_counters(intents, get_kst_date(now))
    /\ UNCHANGED <<now, cfg, execution_log, resetLog>>
    /\ UNCHANGED <<pc, params, rows, has_position, last_trade_ts, buys_today, current_day,
                   order_counter, mock_positions, placeCalls, updCount>>
    /\ UNCHANGED lockVars
    /\ UNCHANGED schemaVars
    /\ UNCHANGED genVars
    /\ UNCHANGED orderResult

\* python app32/main.py --reset-daily-counters without ALLOW_RESET=1:
\* sys.exit(1) before connect()
ResetRefused ==
    /\ pc = "stopped"
    /\ engineExit' = 1
    /\ UNCHANGED <<pc, params, rows, has_position, last_trade_ts, buys_today, current_day,
                   order_counter, mock_positions, placeCalls, updCount>>
    /\ UNCHANGED <<lockVars, storeVars>>
    /\ UNCHANGED schemaVars
    /\ UNCHANGED genVars
    /\ UNCHANGED orderResult

\* ALLOW_RESET=1 python app32/main.py --reset-daily-counters:
\* reset_daily_counters(conn) with its audit event, then main()
ResetAndStart ==
    /\ pc = "stopped"
    /\ Len(resetLog) < MaxResets
    /\ LET day == get_kst_date(now)
       IN  /\ intents' = reset_daily_counters(intents, day)
           /\ resetLog' = Append(resetLog,
                  [records_affected |-> Cardinality(ResetRows(intents, day)),
                   trade_day |-> day])
           /\ MainInit(reset_daily_counters(intents, day))
    /\ UNCHANGED <<now, cfg, execution_log, placeCalls, updCount>>
    /\ UNCHANGED lockVars
    /\ UNCHANGED schemaVars
    /\ UNCHANGED genVars
    /\ UNCHANGED orderResult

\* the engine process is stopped (Ctrl-C, kill) between two adjudications;
\* what it held in memory is gone
EngineStop ==
    /\ pc = "running"
    /\ pc' = "stopped"
    /\ rows' = <<>>
    /\ params' = cfg
    /\ has_position' = FALSE
    /\ last_trade_ts' = 0
    /\ buys_today' = 0
    /\ current_day' = 0
    /\ order_counter' = 0
    /\ mock_positions' = [s \in MockSymbols |-> 0]
    /\ UNCHANGED <<engineExit, placeCalls, updCount>>
    /\ UNCHANGED <<lockVars, storeVars>>
    /\ UNCHANGED schemaVars
    /\ UNCHANGED genVars
    /\ UNCHANGED orderResult

\* top of the while loop: load_params, day rollover, pending fetch
CycleStart ==
    /\ pc = "running"
    /\ rows = <<>>
    /\ params' = cfg
    /\ IF today_prefix(now) # current_day
       THEN /\ current_day' = today_prefix(now)
            /\ buys_today' = count_sent_buy_today(intents, get_kst_date(now))
       ELSE UNCHANGED <<current_day, buys_today>>
    /\ rows' = FetchPending(intents)
    /\ UNCHANGED <<pc, engineExit, has_position, last_trade_ts, order_counter,
                   mock_positions, placeCalls, updCount>>
    /\ UNCHANGED <<lockVars, storeVars>>
    /\ UNCHANGED schemaVars
    /\ UNCHANGED genVars
    /\ UNCHANGED orderResult

\* body of the for loop for the first row not yet adjudicated
Adjudicate ==
    /\ pc = "running"
    /\ rows # <<>>
    /\ ~ParseRaises(intents[Head(rows)], params)
    /\ LET id == Head(rows)
           it == intents[id]
           reason == RiskGates(it, now, buys_today, last_trade_ts, has_position, params)
           lat == latency_ms(it, now)
           error == validate_order(it.symbol, it.action, 1)
           after == EngineStateAfter(error = "", it.action, now, has_position,
                                     last_trade_ts, buys_today)
       IN  IF reason # "PASS"
           THEN \* log_execution_with_jsonl(REJECTED, reason); UPDATE; continue
                /\ execution_log' = Append(execution_log,
                       LogRow("APP32", id, it, "REJECTED", reason,
                              GateContext(reason, it, now, buys_today, last_trade_ts, params),
                              lat, <<>>))
                /\ intents' = SetStatus(intents, id, "REJECTED")
                /\ UNCHANGED <<has_position, last_trade_ts, buys_today, order_counter,
                               mock_positions, placeCalls>>
           ELSE IF error # ""
           THEN \* place_order returns success=False; BROKER_ERROR; continue
                /\ placeCalls' = Append(placeCalls, id)
                /\ execution_log' = Append(execution_log,
                       LogRow("APP32", id, it, "REJECTED", "BROKER_ERROR",
                              [broker_error |-> error], lat, <<>>))
                /\ intents' = SetStatus(intents, id, "REJECTED")
                /\ has_position' = after.has_position
                /\ last_trade_ts' = after.last_trade_ts
                /\ buys_today' = after.buys_today
                /\ UNCHANGED <<order_counter, mock_positions>>
           ELSE \* place_order succeeds: callback row, ledger, SENT row, UPDATE
                LET order_id == OrderId(now, order_counter + 1)
                IN  /\ placeCalls' = Append(placeCalls, id)
                    /\ order_counter' = order_counter + 1
                    /\ mock_positions' = LedgerAfter(mock_positions, it.symbol, it.action, 1)
                    /\ execution_log' = execution_log \o
                         <<LogRow("BROKER", id, it, "SENT", NoReason, <<>>, None, order_id),
                           LogRow("APP32", id, it, "SENT", NoReason, <<>>, lat, <<>>)>>
                    /\ intents' = SetStatus(intents, id, "SENT")
                    /\ has_position' = after.has_position
                    /\ last_trade_ts' = after.last_trade_ts
                    /\ buys_today' = after.buys_today
    /\ updCount' = [updCount EXCEPT ![Head(rows)] = @ + 1]
    /\ rows' = Tail(rows)
    /\ UNCHANGED <<now, cfg, resetLog>>
    /\ UNCHANGED <<pc, engineExit, params, current_day>>
    /\ UNCHANGED lockVars
    /\ UNCHANGED schemaVars
    /\ UNCHANGED genVars
    /\ UNCHANGED orderResult

Next ==
    \/ Tick
    \/ GenInsert
    \/ EngineStart
    \/ ResetRefused
    \/ ResetAndStart
    \/ EngineStop
    \/ CycleStart
    \/ Adjudicate

Spec == Init /\ [][Next]_vars

\* ------------------------------------------------------------------------
\* The engine with a mock_symbols list that holds an empty string, which
\* BrokerInterface.validate_order refuses
\* ------------------------------------------------------------------------

\* configurations with every gate able to reject
BrokerConfigs == {c \in Configs : c.signal_ttl_ms = TtlTicks /\ c.cooldown_sec = 1}

InitBroker ==
    /\ Init
    /\ cfg \in BrokerConfigs

\* signal generator, accepted candidate whose symbol is the empty string
GenInsertEmptySymbol ==
    /\ Len(intents) < MaxIntents
    /\ \E action \in {"BUY", "SELL"} :
        /\ intents' = Append(intents, NewIntent("", action, now, cfg))
        /\ updCount' = Append(updCount, 0)
    /\ UNCHANGED <<now, cfg, execution_log, resetLog>>
    /\ UNCHANGED <<pc, engineExit, params, rows, has_position, last_trade_ts, buys_today,
                   current_day, order_counter, mock_positions, placeCalls>>
    /\ UNCHANGED lockVars
    /\ UNCHANGED schemaVars
    /\ UNCHANGED genVars
    /\ UNCHANGED orderResult

NextBroker ==
    \/ Tick
    \/ GenInsert
    \/ GenInsertEmptySymbol
    \/ EngineStart
    \/ EngineStop
    \/ CycleStart
    \/ Adjudicate

SpecBroker == InitBroker /\ [][NextBroker]_vars

\* ------------------------------------------------------------------------
\* The engine started on a backlog: the generator has inserted BatchLimit
\* intents before the engine runs and inserts more while it runs, up to
\* MaxBacklog rows
\* ------------------------------------------------------------------------

InitFetch ==
    /\ LockIdle
    /\ SchemaIdle
    /\ GenIdle
    /\ orderResult = NoCall
    /\ now = StartTick
    /\ cfg = [signal_ttl_ms |-> 0, cooldown_sec |-> 0,
              max_orders_per_day |-> None, one_position_only |-> 0]
    /\ intents = [i \in 1..BatchLimit |-> NewIntent("005930", "SELL", now, cfg)]
    /\ execution_log = <<>>
    /\ resetLog = <<>>
    /\ pc = "running"
    /\ engineExit = None
    /\ params = cfg
    /\ rows = <<>>
    /\ has_position = FALSE
    /\ last_trade_ts = 0
    /\ buys_today = 0
    /\ current_day = today_prefix(now)
    /\ order_counter = 0
    /\ mock_positions = [s \in MockSymbols |-> 0]
    /\ placeCalls = <<>>
    /\ updCount = [i \in 1..BatchLimit |-> 0]

\* signal generator, accepted candidate, while the backlog is below MaxBacklog
GenInsertBacklog ==
    /\ Len(intents) < MaxBacklog
    /\ \E sym \in MockSymbols, action \in {"BUY", "SELL"} :
        /\ intents' = Append(intents, NewIntent(sym, action, now, cfg))
        /\ updCount' = Append(updCount, 0)
    /\ UNCHANGED <<now, cfg, execution_log, resetLog>>
    /\ UNCHANGED <<pc, engineExit, params, rows, has_position, last_trade_ts, buys_today,
                   current_day, order_counter, mock_positions, placeCalls>>
    /\ UNCHANGED lockVars
    /\ UNCHANGED schemaVars
    /\ UNCHANGED genVars
    /\ UNCHANGED orderResult

NextFetch ==
    \/ GenInsertBacklog
    \/ EngineStop
    \/ EngineStart
    \/ CycleStart
    \/ Adjudicate

SpecFetch == InitFetch /\ [][NextFetch]_vars

\* ------------------------------------------------------------------------
\* The generator processes with their store: main() calls
\* ensure_single_instance() first, then connect(), init_schema() and the
\* loop that inserts intents
\* ------------------------------------------------------------------------

\* a store operation of generator process p: it is past ensure_single_instance
GeneratorInsert(p) ==
    /\ lpc[p] = "running"
    /\ GenInsert

NextGenerator ==
    \E p \in Procs :
        \/ StartAcquire(p)
        \/ TryCreate(p)
        \/ WriteClaim(p)
        \/ ReadClaim(p)
        \/ UnlinkClaim(p)
        \/ RegisterHook(p)
        \/ BlockedExit(p)
        \/ GeneratorInsert(p)
        \/ ExitProcess(p)
        \/ ReleaseExists(p)
        \/ ReleaseRead(p)
        \/ ReleaseUnlink(p)
        \/ Kill(p)

SpecGenerator == InitLock /\ [][NextGenerator]_vars

\* ------------------------------------------------------------------------
\* A second engine process on the same store: app32 takes no instance lock,
\* so nothing keeps an operator from starting main.py twice
\* ------------------------------------------------------------------------

\* the loop body of a second engine that has just started (has_position =
\* False, last_trade_ts = 0.0, buys_today loaded from the store), run for a
\* NEW intent it has fetched
OtherEngineAdjudicates ==
    /\ \E id \in DOMAIN intents :
        /\ intents[id].status = "NEW"
        /\ LET it == intents[id]
               bt == count_sent_buy_today(intents, get_kst_date(now))
               reason == RiskGates(it, now, bt, 0, FALSE, cfg)
               lat == latency_ms(it, now)
           IN  IF reason # "PASS"
               THEN /\ execution_log' = Append(execution_log,
                          LogRow("APP32", id, it, "REJECTED", reason,
                                 GateContext(reason, it, now, bt, 0, cfg), lat, <<>>))
                    /\ intents' = SetStatus(intents, id, "REJECTED")
                    /\ UNCHANGED placeCalls
               ELSE /\ placeCalls' = Append(placeCalls, id)
                    /\ execution_log' = execution_log \o
                          <<LogRow("BROKER", id, it, "SENT", NoReason, <<>>, None,
                                   OrderId(now, 1)),
                            LogRow("APP32", id, it, "SENT", NoReason, <<>>, lat, <<>>)>>
                    /\ intents' = SetStatus(intents, id, "SENT")
        /\ updCount' = [updCount EXCEPT ![id] = @ + 1]
    /\ UNCHANGED <<now, cfg, resetLog>>
    /\ UNCHANGED <<pc, engineExit, params, rows, has_position, last_trade_ts, buys_today,
                   current_day, order_counter, mock_positions>>
    /\ UNCHANGED lockVars
    /\ UNCHANGED schemaVars
    /\ UNCHANGED genVars
    /\ UNCHANGED orderResult

NextTwoEngines ==
    \/ Tick
    \/ GenInsert
    \/ EngineStart
    \/ EngineStop
    \/ CycleStart
    \/ Adjudicate
    \/ OtherEngineAdjudicates

SpecTwoEngines == InitBroker /\ [][NextTwoEngines]_vars

\* ------------------------------------------------------------------------
\* The engine under faults: a store statement that raises, a row whose ts
\* text is malformed, a process killed in the middle of the loop body
\* ------------------------------------------------------------------------

FaultConfigs ==
    {c \in Configs : c.cooldown_sec = 0 /\ c.max_orders_per_day = None
                     /\ c.one_position_only = 0}

InitFaults ==
    /\ Init
    /\ cfg \in FaultConfigs

\* the engine process is gone: what it held in memory is lost
EngineProcessEnds ==
    /\ pc' = "stopped"
    /\ rows' = <<>>
    /\ params' = cfg
    /\ has_position' = FALSE
    /\ last_trade_ts' = 0
    /\ buys_today' = 0
    /\ current_day' = 0
    /\ order_counter' = 0
    /\ mock_positions' = [s \in MockSymbols |-> 0]

\* a row written by another producer (a legacy row without created_at)
\* whose ts text is malformed
InsertMalformed ==
    /\ Len(intents) < MaxIntents
    /\ \E action \in {"BUY", "SELL"} :
        /\ intents' = Append(intents,
              [NewIntent("005930", action, now, cfg)
                  EXCEPT !.ts = Malformed, !.created_at = None])
        /\ updCount' = Append(updCount, 0)
    /\ UNCHANGED <<now, cfg, execution_log, resetLog>>
    /\ UNCHANGED <<pc, engineExit, params, rows, has_position, last_trade_ts, buys_today,
                   current_day, order_counter, mock_positions, placeCalls>>
    /\ UNCHANGED lockVars
    /\ UNCHANGED schemaVars
    /\ UNCHANGED genVars
    /\ UNCHANGED orderResult

\* loop body: the first store statement raises sqlite3.Error (database
\* locked, disk full, schema drift); nothing in main() catches it, the
\* process ends with a traceback and exit status 1
AdjudicateStorageError ==
    /\ pc = "running"
    /\ rows # <<>>
    /\ ~ParseRaises(intents[Head(rows)], params)
    /\ EngineProcessEnds
    /\ engineExit' = 1
    /\ UNCHANGED <<placeCalls, updCount>>
    /\ UNCHANGED <<lockVars, storeVars>>
    /\ UNCHANGED schemaVars
    /\ UNCHANGED genVars
    /\ UNCHANGED orderResult

\* loop body: datetime.strptime of the TTL check raises ValueError; nothing
\* in main() catches it, the process ends with a traceback and exit status 1
AdjudicateParseError ==
    /\ pc = "running"
    /\ rows # <<>>
    /\ ParseRaises(intents[Head(rows)], params)
    /\ EngineProcessEnds
    /\ engineExit' = 1
    /\ UNCHANGED <<placeCalls, updCount>>
    /\ UNCHANGED <<lockVars, storeVars>>
    /\ UNCHANGED schemaVars
    /\ UNCHANGED genVars
    /\ UNCHANGED orderResult

\* loop body: the process is killed after its autocommitted INSERTs into
\* execution_log and before the UPDATE of the status; for an intent that
\* passes the gates either after the broker's callback row or after the
\* engine's own SENT row
AdjudicateCrash ==
    /\ pc = "running"
    /\ rows # <<>>
    /\ ~ParseRaises(intents[Head(rows)], params)
    /\ Len(execution_log) < MaxLogRows
    /\ LET id == Head(rows)
           it == intents[id]
           reason == RiskGates(it, now, buys_today, last_trade_ts, has_position, params)
           lat == latency_ms(it, now)
       IN  IF reason # "PASS"
           THEN /\ execution_log' = Append(execution_log,
                      LogRow("APP32", id, it, "REJECTED", reason,
                             GateContext(reason, it, now, buys_today, last_trade_ts, params),
                             lat, <<>>))
                /\ UNCHANGED placeCalls
           ELSE /\ placeCalls' = Append(placeCalls, id)
                /\ \E logged \in BOOLEAN :
                     execution_log' = execution_log \o
                        (<<LogRow("BROKER", id, it, "SENT", NoReason, <<>>, None,
                                  OrderId(now, order_counter + 1))>>
                         \o IF logged
                            THEN <<LogRow("APP32", id, it, "SENT", NoReason, <<>>, lat, <<>>)>>
                            ELSE <<>>)
    /\ EngineProcessEnds
    /\ UNCHANGED <<now, cfg, intents, resetLog>>
    /\ UNCHANGED <<engineExit, updCount>>
    /\ UNCHANGED lockVars
    /\ UNCHANGED schemaVars
    /\ UNCHANGED genVars
    /\ UNCHANGED orderResult

NextFaults ==
    \/ Tick
    \/ GenInsert
    \/ InsertMalformed
    \/ EngineStart
    \/ EngineStop
    \/ CycleStart
    \/ Adjudicate
    \/ AdjudicateStorageError
    \/ AdjudicateParseError
    \/ AdjudicateCrash

SpecFaults == InitFaults /\ [][NextFaults]_vars

\* ------------------------------------------------------------------------
\* init_schema called again and again on a database file of any prior
\* schema state
\* ------------------------------------------------------------------------

InitSchema ==
    /\ LockIdle
    /\ EngineIdle
    /\ schemaHist \in {<<d>> : d \in PriorDbs}
    /\ initRaised = FALSE
    /\ GenIdle
    /\ orderResult = NoCall

\* conn = connect(); init_schema(conn)
InitSchemaCall ==
    /\ Len(schemaHist) <= MaxInitCalls
    /\ ~initRaised
    /\ LET r == init_schema(db)
       IN  /\ schemaHist' = Append(schemaHist, r.db)
           /\ initRaised' = r.err
    /\ UNCHANGED <<lockVars, storeVars, engineVars>>
    /\ UNCHANGED genVars
    /\ UNCHANGED orderResult

NextSchema == InitSchemaCall

SpecSchema == InitSchema /\ [][NextSchema]_vars

\* ------------------------------------------------------------------------
\* The generator's loop: one candidate per iteration through the score,
\* duplicate and burst gates
\* ------------------------------------------------------------------------

DupTicks == DUPLICATE_COOLDOWN_SEC * TicksPerSec
BurstTicks == BURST_GUARD_WINDOW_SEC * TicksPerSec
DedupeTicks == DedupeWindowSec * TicksPerSec

\* select_symbol: a symbol not seen within the dedupe window, any symbol
\* when there is none
select_symbol(symbols, last_seen, t) ==
    LET eligible == {sym \in symbols :
                        last_seen[sym] = None \/ t - last_seen[sym] >= DedupeTicks}
    IN  IF eligible = {} THEN symbols ELSE eligible

\* mutant: the score gate lets every score pass
LowScore_Never(score) == FALSE

\* gate 1: score < TEST_MODE_THRESHOLD
LowScore(score) == score < TEST_MODE_THRESHOLD

\* gate 2: (now_ts - recent_signal_ts.get(key, 0.0)) < DUPLICATE_COOLDOWN_SEC
Duplicate(recent, key, t) == recent[key] # None /\ t - recent[key] < DupTicks

\* mutant: the clean-up of the burst window removes nothing
PopOld_Keep(times, t) == times

\* gate 3, clean-up: popleft while the oldest time is BURST_GUARD_WINDOW_SEC
\* or more in the past
RECURSIVE PopOld(_, _)
PopOld(times, t) ==
    IF times # <<>> /\ t - Head(times) >= BurstTicks
    THEN PopOld(Tail(times), t)
    ELSE times

\* mutant: every candidate sees the burst guard as expired
BurstActive_Never(t, until) == FALSE

\* gate 3: now_ts < burst_guard_active_until
BurstActive(t, until) == t < until

\* mutant: the burst state is entered one signal late
BurstFull_Late(times) == Len(times) > BURST_GUARD_LIMIT

\* gate 3: len(signal_creation_times) >= BURST_GUARD_LIMIT
BurstFull(times) == Len(times) >= BURST_GUARD_LIMIT

\* the gates in source order: skip_reason ("" for an accepted candidate), the
\* burst window and the burst deadline after them
QualityGates(score, key, t, recent, times, until) ==
    IF LowScore(score)
    THEN [reason |-> "LOW_AI_SCORE", times |-> times, until |-> until]
    ELSE IF Duplicate(recent, key, t)
    THEN [reason |-> "DUPLICATE_COOLDOWN", times |-> times, until |-> until]
    ELSE LET cleaned == PopOld(times, t)
         IN  IF BurstActive(t, until)
             THEN [reason |-> "BURST_GUARD", times |-> cleaned, until |-> until]
             ELSE IF BurstFull(cleaned)
             THEN [reason |-> "BURST_GUARD", times |-> cleaned, until |-> t + BurstTicks]
             ELSE [reason |-> "", times |-> cleaned, until |-> until]

\* a row as the generator inserts it, with the candidate's score
NewSignal(sym, action, score, t, c) ==
    [NewIntent(sym, action, t, c) EXCEPT !.ai_score = score]

InitSignal ==
    /\ LockIdle
    /\ EngineIdle
    /\ SchemaIdle
    /\ GenIdle
    /\ orderResult = NoCall

\* time passes between two iterations (time.sleep); the iterations of a run
\* are observed at whole seconds after its start
GenTick ==
    /\ now + TicksPerSec <= StartTick + MaxGenSeconds * TicksPerSec
    /\ now' = now + TicksPerSec
    /\ UNCHANGED <<cfg, intents, execution_log, resetLog>>
    /\ UNCHANGED <<lockVars, engineVars, schemaVars, genVars>>
    /\ UNCHANGED orderResult

\* one iteration of the while loop: draw a candidate, apply the gates, then
\* either log the skip (not for LOW_AI_SCORE) or record and insert the signal
GenCandidate ==
    /\ \E sym \in select_symbol(GenSymbols, mock_last_seen, now),
          action \in {"BUY", "SELL"}, score \in Scores :
        LET key == <<sym, action>>
            g == QualityGates(score, key, now, recent_signal_ts,
                              signal_creation_times, burst_guard_active_until)
            it == NewSignal(sym, action, score, now, cfg)
        IN  /\ g.reason = "" => Len(intents) < MaxSignals
            /\ g.reason \in {"DUPLICATE_COOLDOWN", "BURST_GUARD"} => Len(skipLog) < MaxSkips
            /\ lastCand' = [sym |-> sym, action |-> action, score |-> score,
                            reason |-> g.reason]
            /\ burst_guard_active_until' = g.until
            /\ IF g.reason # ""
               THEN /\ signal_creation_times' = g.times
                    /\ skipLog' = IF g.reason # "LOW_AI_SCORE"
                                  THEN Append(skipLog, g.reason)
                                  ELSE skipLog
                    /\ UNCHANGED <<recent_signal_ts, mock_last_seen, intents,
                                   execution_log, updCount>>
               ELSE /\ recent_signal_ts' = [recent_signal_ts EXCEPT ![key] = now]
                    /\ signal_creation_times' = Append(g.times, now)
                    /\ intents' = Append(intents, it)
                    /\ updCount' = Append(updCount, 0)
                    /\ execution_log' = Append(execution_log,
                          LogRow("APP64", Len(intents) + 1, it, "CREATED", NoReason,
                                 <<>>, None, <<>>))
                    /\ mock_last_seen' = [mock_last_seen EXCEPT ![sym] = now]
                    /\ UNCHANGED skipLog
    /\ UNCHANGED <<now, cfg, resetLog>>
    /\ UNCHANGED <<pc, engineExit, params, rows, has_position, last_trade_ts, buys_today,
                   current_day, order_counter, mock_positions, placeCalls>>
    /\ UNCHANGED <<lockVars, schemaVars>>
    /\ UNCHANGED orderResult

NextSignal ==
    \/ GenTick
    \/ GenCandidate

SpecSignal == InitSignal /\ [][NextSignal]_vars

\* ------------------------------------------------------------------------
\* The simulation broker exercised on its own: place_order with arguments
\* of every kind, the audit callback of main.py injected
\* ------------------------------------------------------------------------

OrderSymbols == {"", "005930", "000660"}
OrderActions == {"BUY", "SELL", "HOLD"}
OrderQuantities == {0, 1, 2}

\* MockBroker(callback): counter 0, empty ledger (a symbol without an entry
\* holds 0)
InitMock ==
    /\ LockIdle
    /\ SchemaIdle
    /\ GenIdle
    /\ orderResult = NoCall
    /\ now = StartTick
    /\ cfg = [signal_ttl_ms |-> 0, cooldown_sec |-> 0,
              max_orders_per_day |-> None, one_position_only |-> None]
    /\ intents = <<>>
    /\ execution_log = <<>>
    /\ resetLog = <<>>
    /\ pc = "stopped"
    /\ engineExit = None
    /\ params = cfg
    /\ rows = <<>>
    /\ has_position = FALSE
    /\ last_trade_ts = 0
    /\ buys_today = 0
    /\ current_day = 0
    /\ order_counter = 0
    /\ mock_positions = [sym \in OrderSymbols \ {""} |-> 0]
    /\ placeCalls = <<>>
    /\ updCount = <<>>

\* the callback made by create_broker_execution_callback: one BROKER row
CallbackRow(c) ==
    LogRow("BROKER", 0, [symbol |-> c.symbol, action |-> c.action], c.status,
           NoReason, <<>>, None, c.order_id)

\* broker.place_order(symbol, action, quantity=...)
PlaceOrderCall ==
    /\ order_counter < MaxOrders
    /\ \E symbol \in OrderSymbols, action \in OrderActions, quantity \in OrderQuantities :
        LET r == place_order(order_counter, mock_positions, symbol, action, quantity, now)
        IN  /\ orderResult' = [symbol |-> symbol, action |-> action, quantity |-> quantity,
                               success |-> r.result.success,
                               order_id |-> r.result.order_id,
                               reason |-> r.result.reason]
            /\ order_counter' = r.order_counter
            /\ mock_positions' = r.mock_positions
            /\ execution_log' = execution_log \o
                    [k \in DOMAIN r.callbacks |-> CallbackRow(r.callbacks[k])]
    /\ UNCHANGED <<now, cfg, intents, resetLog>>
    /\ UNCHANGED <<pc, engineExit, params, rows, has_position, last_trade_ts, buys_today,
                   current_day, placeCalls, updCount>>
    /\ UNCHANGED <<lockVars, schemaVars, genVars>>

NextMock ==
    \/ Tick
    \/ PlaceOrderCall

SpecMock == InitMock /\ [][NextMock]_vars

\* ------------------------------------------------------------------------
\* The engine loop scheduled fairly, with no stop and no crash, while the
\* generator inserts
\* ------------------------------------------------------------------------

NextLive ==
    \/ Tick
    \/ GenInsert
    \/ GenInsertEmptySymbol
    \/ EngineStart
    \/ CycleStart
    \/ Adjudicate

\* the loop runs for ever: main() is started, every time.sleep(poll) returns
\* and the next cycle starts, every fetched row gets its turn in the for loop
Fairness ==
    /\ WF_vars(EngineStart)
    /\ WF_vars(CycleStart)
    /\ WF_vars(Adjudicate)

SpecLive == InitBroker /\ [][NextLive]_vars /\ Fairness

\* ========================================================================
\* Properties of the engine
\* ========================================================================

\* a step that adjudicates the first fetched row
AdjStep == pc = "running" /\ pc' = "running" /\ rows # <<>> /\ rows' = Tail(rows)

\* the intent such a step adjudicates
Cur == intents[Head(rows)]

\* the execution_log rows such a step appends, and the engine's own ones
NewRows == SubSeq(execution_log', Len(execution_log) + 1, Len(execution_log'))
NewApp32 == SelectSeq(NewRows, LAMBDA r : r.module = "APP32")

\* the outcome row of the step
Outcome == execution_log'[Len(execution_log')]

LastRow == execution_log[Len(execution_log)]

\* what each gate would answer on the state before the step
TtlFails == TtlGate(Cur, now, params)
DailyFails == DailyLimitGate(Cur, buys_today, params)
CooldownFails == CooldownGate(Cur, now, last_trade_ts, params)
OnePositionFails == OnePositionGate(Cur, has_position, params)

\* C2: the gates are evaluated in the order TTL, daily-limit, cooldown,
\* single-position; the first one that rejects gives the single recorded
\* reason of the intent (TTL before daily-limit, cooldown before
\* single-position), and exactly one outcome row is written.
C2_GateOrder ==
    [][AdjStep =>
        /\ Len(NewApp32) = 1
        /\ TtlFails => Outcome.rejection_reason = "TTL_EXPIRED"
        /\ ~TtlFails /\ DailyFails => Outcome.rejection_reason = "DAILY_LIMIT"
        /\ ~TtlFails /\ ~DailyFails /\ CooldownFails
              => Outcome.rejection_reason = "COOLDOWN"
        /\ ~TtlFails /\ ~DailyFails /\ ~CooldownFails /\ OnePositionFails
              => Outcome.rejection_reason = "ONE_POSITION"
        /\ ~TtlFails /\ ~DailyFails /\ ~CooldownFails /\ ~OnePositionFails
              => Outcome.rejection_reason \in {NoReason, "BROKER_ERROR"}
      ]_vars

\* C2 witness: a BUY that fails both the TTL and the daily-limit gate has just
\* been recorded with TTL_EXPIRED
C2_Witness ==
    /\ pc = "running"
    /\ execution_log # <<>>
    /\ LastRow.rejection_reason = "TTL_EXPIRED"
    /\ LastRow.action = "BUY"
    /\ TtlGate(intents[LastRow.intent], now, params)
    /\ DailyLimitGate(intents[LastRow.intent], buys_today, params)

\* C3: the status of an intent changes only from NEW to SENT or from NEW to
\* REJECTED, except for the administrative reset, which turns SENT BUY rows
\* into PROCESSED; no other change of status happens.
C3_StatusTransitions ==
    [][\A i \in DOMAIN intents :
        /\ i \in DOMAIN intents'
        /\ intents'[i].status # intents[i].status =>
            \/ /\ intents[i].status = "NEW"
               /\ intents'[i].status \in {"SENT", "REJECTED"}
               /\ resetLog' = resetLog
            \/ /\ intents[i].status = "SENT"
               /\ intents[i].action = "BUY"
               /\ intents'[i].status = "PROCESSED"
               /\ resetLog' # resetLog
      ]_vars

\* C3 witness: one intent was reset to PROCESSED and another one was rejected
C3_Witness ==
    \E i, j \in DOMAIN intents :
        /\ intents[i].status = "PROCESSED"
        /\ intents[j].status = "REJECTED"

\* number of outcome rows the engine wrote for intent i
Adjudications(i) ==
    Len(SelectSeq(execution_log, LAMBDA r : r.module = "APP32" /\ r.intent = i))

\* number of place_order calls made for intent i
Placements(i) == Len(SelectSeq(placeCalls, LAMBDA id : id = i))

\* C4: every intent is terminally updated at most once and then has exactly
\* one outcome row; a terminal intent is not in a fetched batch, is not
\* adjudicated or submitted to the broker again; no intent is deleted.
C4_ExactlyOnce ==
    /\ Len(updCount) = Len(intents)
    /\ \A i \in DOMAIN intents :
        /\ updCount[i] <= 1
        /\ Adjudications(i) = updCount[i]
        /\ Placements(i) <= 1
        /\ intents[i].status = "NEW" <=> updCount[i] = 0
    /\ \A k \in DOMAIN rows : intents[rows[k]].status = "NEW"

\* C4 witness: two intents are terminal, one SENT and one REJECTED, and the
\* engine has finished its batch
C4_Witness ==
    /\ pc = "running"
    /\ rows = <<>>
    /\ \E i, j \in DOMAIN intents :
        /\ intents[i].status = "SENT"
        /\ intents[j].status = "REJECTED"

Days == 0..((StartTick + MaxElapsed) \div DayTicks)

\* C5: with a positive max_orders_per_day and no administrative reset, the
\* number of SENT BUY intents of any trading day never exceeds
\* max_orders_per_day.
C5_DailyCap ==
    (resetLog = <<>> /\ CfgGet(cfg.max_orders_per_day, 0) > 0) =>
        \A d \in Days :
            count_sent_buy_today(intents, d) <= CfgGet(cfg.max_orders_per_day, 0)

\* the configured limit as a positive number, else 0
PositiveLimit == IF CfgGet(params.max_orders_per_day, 0) > 0
                 THEN CfgGet(params.max_orders_per_day, 0) ELSE 0

\* C6: an intent that reaches the daily-limit gate is rejected with
\* DAILY_LIMIT exactly when it is a BUY, the configured limit is a positive
\* number and buys_today >= the limit; with a limit of zero or absent no
\* intent is rejected with DAILY_LIMIT.
C6_DailyLimitGate ==
    [][AdjStep =>
        /\ ~TtlFails =>
            (Outcome.rejection_reason = "DAILY_LIMIT"
                <=> Cur.action = "BUY" /\ PositiveLimit > 0 /\ buys_today >= PositiveLimit)
        /\ params.max_orders_per_day \in {None, 0}
              => Outcome.rejection_reason # "DAILY_LIMIT"
      ]_vars

\* C6 witness: a BUY was just rejected with DAILY_LIMIT at buys_today equal to
\* the limit
C6_Witness ==
    /\ pc = "running"
    /\ execution_log # <<>>
    /\ LastRow.rejection_reason = "DAILY_LIMIT"
    /\ LastRow.action = "BUY"
    /\ LastRow.context.buys_today = LastRow.context.max_orders_per_day

\* C7: a SELL is never rejected with DAILY_LIMIT, COOLDOWN or ONE_POSITION,
\* and a SELL that passes the TTL gate is passed to place_order.
C7_SellNeverLimited ==
    [][AdjStep /\ Cur.action = "SELL" =>
        /\ Outcome.rejection_reason \notin {"DAILY_LIMIT", "COOLDOWN", "ONE_POSITION"}
        /\ ~TtlFails => placeCalls' = Append(placeCalls, Head(rows))
      ]_vars

\* C7 witness: a SELL was just SENT while the daily limit is reached, the
\* cooldown is running and a position is open in one-position mode
C7_Witness ==
    /\ pc = "running"
    /\ execution_log # <<>>
    /\ LastRow.action = "SELL"
    /\ LastRow.decision = "SENT"
    /\ has_position
    /\ CfgGet(params.one_position_only, 1) # 0
    /\ PositiveLimit > 0 /\ buys_today >= PositiveLimit
    /\ now - last_trade_ts < CfgGet(params.cooldown_sec, 0) * TicksPerSec

\* the configured cooldown in ticks
CooldownTicks == CfgGet(params.cooldown_sec, 0) * TicksPerSec

\* C8 as stated: with last_buy_time = T and cooldown C, any BUY adjudicated
\* before T+C is rejected with the cooldown reason, and any BUY adjudicated
\* at or after T+C is not rejected by the cooldown gate.
C8_CooldownAsStated ==
    [][AdjStep /\ Cur.action = "BUY" =>
        /\ now < last_trade_ts + CooldownTicks => Outcome.rejection_reason = "COOLDOWN"
        /\ now >= last_trade_ts + CooldownTicks => Outcome.rejection_reason # "COOLDOWN"
      ]_vars

\* C8 amended: with last_buy_time = T and cooldown C, any BUY that has passed
\* the TTL and the daily-limit gate and is adjudicated before T+C is rejected
\* with the cooldown reason, and any BUY adjudicated at or after T+C is not
\* rejected by the cooldown gate.
C8_CooldownAfterEarlierGates ==
    [][AdjStep /\ Cur.action = "BUY" =>
        /\ ~TtlFails /\ ~DailyFails /\ now < last_trade_ts + CooldownTicks
              => Outcome.rejection_reason = "COOLDOWN"
        /\ now >= last_trade_ts + CooldownTicks => Outcome.rejection_reason # "COOLDOWN"
      ]_vars

\* C8 witness: a BUY was just rejected with COOLDOWN before T+C, after an
\* earlier BUY was SENT
C8_Witness ==
    /\ pc = "running"
    /\ execution_log # <<>>
    /\ LastRow.rejection_reason = "COOLDOWN"
    /\ LastRow.action = "BUY"
    /\ last_trade_ts > 0
    /\ now < last_trade_ts + CooldownTicks

\* one-position-only mode as configured for the cycle (absent means on)
OnePositionMode == CfgGet(params.one_position_only, 1) # 0

\* C9: in one-position-only mode no BUY is SENT while has_position is true;
\* a BUY that reaches the single-position gate is rejected with ONE_POSITION
\* exactly when the mode is on and has_position is true, and never when the
\* mode is off.
C9_OnePosition ==
    [][AdjStep /\ Cur.action = "BUY" =>
        /\ OnePositionMode /\ has_position => Outcome.decision # "SENT"
        /\ ~TtlFails /\ ~DailyFails /\ ~CooldownFails =>
              (Outcome.rejection_reason = "ONE_POSITION" <=> OnePositionMode /\ has_position)
        /\ ~OnePositionMode => Outcome.rejection_reason # "ONE_POSITION"
      ]_vars

\* C9 witness: a BUY was just rejected with ONE_POSITION, the mode being on by
\* default (key absent)
C9_Witness ==
    /\ pc = "running"
    /\ execution_log # <<>>
    /\ LastRow.rejection_reason = "ONE_POSITION"
    /\ LastRow.action = "BUY"
    /\ has_position
    /\ params.one_position_only = None

\* the creation instant the claim measures the age from
CreatedAt(it) == IF it.created_at # None THEN it.created_at ELSE it.ts

\* C10: an intent (with a positive ttl) is rejected with TTL_EXPIRED exactly
\* when now minus its created_at (its ts when created_at is absent) exceeds
\* its own ttl, and the rejection context carries that age and that ttl.
C10_TtlExact ==
    [][AdjStep /\ Cur.ttl_ms > 0 =>
        /\ Outcome.rejection_reason = "TTL_EXPIRED" <=> now - CreatedAt(Cur) > Cur.ttl_ms
        /\ Outcome.rejection_reason = "TTL_EXPIRED" =>
              /\ Outcome.context.age_ms = now - CreatedAt(Cur)
              /\ Outcome.context.ttl_ms = Cur.ttl_ms
      ]_vars

\* a step in which place_order returned success: the broker's callback row
\* and the engine's SENT row are appended
BrokerSucceeded ==
    /\ AdjStep
    /\ Len(NewRows) = 2
    /\ NewRows[1].module = "BROKER"
    /\ placeCalls' = Append(placeCalls, Head(rows))

\* C11: when the broker reports success the intent is persisted as SENT; a
\* BUY sets has_position, sets last_trade_ts to now and adds one to
\* buys_today; a SELL leaves the three unchanged.
C11_BrokerSuccess ==
    [][BrokerSucceeded =>
        /\ intents'[Head(rows)].status = "SENT"
        /\ Outcome.decision = "SENT"
        /\ Cur.action = "BUY" =>
              /\ has_position'
              /\ last_trade_ts' = now
              /\ buys_today' = buys_today + 1
        /\ Cur.action # "BUY" =>
              UNCHANGED <<has_position, last_trade_ts, buys_today>>
      ]_vars

\* C11 witness: a SELL was just SENT after an earlier BUY; the position
\* flag, the time of the BUY and the counter are those the BUY left
C11_Witness ==
    /\ pc = "running"
    /\ execution_log # <<>>
    /\ LastRow.decision = "SENT"
    /\ LastRow.action = "SELL"
    /\ intents[LastRow.intent].status = "SENT"
    /\ has_position
    /\ last_trade_ts > 0
    /\ last_trade_ts < now
    /\ buys_today = 1

\* a step in which place_order was called and returned a failure result
BrokerFailed ==
    /\ pc = "running"
    /\ rows # <<>>
    /\ placeCalls' = Append(placeCalls, Head(rows))
    /\ validate_order(Cur.symbol, Cur.action, 1) # ""

\* C12: when place_order returns a failure result the intent is persisted as
\* REJECTED with reason BROKER_ERROR in one outcome row, has_position,
\* last_trade_ts and buys_today are unchanged, and the loop goes on with the
\* rest of the batch.
C12_BrokerFailure ==
    [][BrokerFailed =>
        /\ intents'[Head(rows)].status = "REJECTED"
        /\ Len(NewRows) = 1
        /\ Outcome.decision = "REJECTED"
        /\ Outcome.rejection_reason = "BROKER_ERROR"
        /\ UNCHANGED <<has_position, last_trade_ts, buys_today>>
        /\ pc' = "running"
        /\ rows' = Tail(rows)
      ]_vars

\* C12 witness: a BUY was just rejected with BROKER_ERROR, the engine holds
\* no position and has counted no BUY, and the batch has another row left
C12_Witness ==
    /\ pc = "running"
    /\ execution_log # <<>>
    /\ LastRow.rejection_reason = "BROKER_ERROR"
    /\ LastRow.action = "BUY"
    /\ intents[LastRow.intent].status = "REJECTED"
    /\ ~has_position
    /\ last_trade_ts = 0
    /\ buys_today = 0
    /\ rows # <<>>

\* a step that adjudicates an intent which some gate rejects
GateRejects ==
    /\ AdjStep
    /\ TtlFails \/ DailyFails \/ CooldownFails \/ OnePositionFails

\* C13: an intent rejected by a gate is marked REJECTED, gets exactly one
\* execution_log row, carrying that gate's reason, place_order is not called
\* for it, and has_position, last_trade_ts and buys_today (and the broker's
\* counter and ledger) are unchanged.
C13_GateRejection ==
    [][GateRejects =>
        /\ intents'[Head(rows)].status = "REJECTED"
        /\ Len(NewRows) = 1
        /\ Outcome.module = "APP32"
        /\ Outcome.intent = Head(rows)
        /\ Outcome.decision = "REJECTED"
        /\ Outcome.rejection_reason \in
              {"TTL_EXPIRED", "DAILY_LIMIT", "COOLDOWN", "ONE_POSITION"}
        /\ Outcome.rejection_reason = "TTL_EXPIRED" => TtlFails
        /\ Outcome.rejection_reason = "DAILY_LIMIT" => DailyFails
        /\ Outcome.rejection_reason = "COOLDOWN" => CooldownFails
        /\ Outcome.rejection_reason = "ONE_POSITION" => OnePositionFails
        /\ UNCHANGED <<placeCalls, order_counter, mock_positions>>
        /\ UNCHANGED <<has_position, last_trade_ts, buys_today>>
      ]_vars

\* C13 witness: a BUY was just rejected with COOLDOWN after an earlier BUY
\* was sent; it has one outcome row, was never passed to place_order, and
\* the runtime state is the one the earlier BUY left
C13_Witness ==
    /\ pc = "running"
    /\ execution_log # <<>>
    /\ LastRow.rejection_reason = "COOLDOWN"
    /\ intents[LastRow.intent].status = "REJECTED"
    /\ Adjudications(LastRow.intent) = 1
    /\ Placements(LastRow.intent) = 0
    /\ Len(placeCalls) = 1
    /\ has_position
    /\ buys_today = 1
    /\ last_trade_ts < now

\* a step that runs the pending fetch at the top of the loop
FetchStep ==
    /\ pc = "running"
    /\ rows = <<>>
    /\ intents' = intents
    /\ rows' # <<>>

PendingIds == {i \in DOMAIN intents : intents[i].status = "NEW"}

\* C14: the pending fetch returns only NEW intents, at most BatchLimit of
\* them, in ascending id order and starting with the lowest ids; whenever an
\* intent is adjudicated, no intent with a lower id is still NEW.
C14_FetchFifo ==
    [][/\ FetchStep =>
            /\ Len(rows') <= BatchLimit
            /\ \A k \in DOMAIN rows' : rows'[k] \in PendingIds
            /\ \A k \in 1..(Len(rows') - 1) : rows'[k] < rows'[k + 1]
            /\ \A i \in PendingIds :
                  (\A k \in DOMAIN rows' : rows'[k] # i) =>
                      /\ Len(rows') = BatchLimit
                      /\ \A k \in DOMAIN rows' : rows'[k] < i
       /\ AdjStep =>
            \A i \in 1..(Head(rows) - 1) : intents[i].status # "NEW"
      ]_vars

\* C14 witness: a full batch was fetched while more than BatchLimit intents
\* were NEW, its first rows are adjudicated, and an intent inserted before
\* the fetch waits outside the batch
C14_Witness ==
    /\ pc = "running"
    /\ Len(rows) = 2
    /\ Head(rows) = BatchLimit - 1
    /\ Len(intents) > BatchLimit
    /\ intents[BatchLimit + 1].status = "NEW"
    /\ \A i \in 1..(BatchLimit - 2) : intents[i].status # "NEW"

\* ========================================================================
\* Properties of the lock
\* ========================================================================

\* no process other than p has called acquire
Alone(p) == \A q \in Procs \ {p} : lpc[q] = "init"

\* C15: started on a claim that records a dead pid, and with no other
\* process acquiring, one acquire call finds the claim stale on its first
\* attempt, deletes it, creates the file on its second attempt, returns
\* (True, None) and leaves the file recording its own pid; it is never
\* blocked.
C15_StaleRecovery ==
    \A p \in Procs : Alone(p) =>
        /\ lpc[p] # "blocked"
        /\ lpc[p] \in {"read", "unlink"} =>
              attempt[p] = 0 /\ lockFile = ClaimOf(DeadPid)
        /\ lpc[p] = "try" /\ attempt[p] = 1 => ~lockFile.exists
        /\ lpc[p] = "write" => attempt[p] = 1
        /\ lpc[p] \in {"acquired", "running"} =>
              /\ result[p] = <<TRUE, None>>
              /\ attempt[p] = 1
              /\ lockFile = ClaimOf(p)

\* C15 witness: a process acquired alone on its second attempt and the file
\* records its pid
C15_Witness ==
    \E p \in Procs :
        /\ Alone(p)
        /\ lpc[p] = "acquired"
        /\ attempt[p] = 1
        /\ result[p] = <<TRUE, None>>
        /\ lockFile = ClaimOf(p)

ReleaseStep(p) ==
    /\ lpc[p] \in {"rel_exists", "rel_read", "rel_unlink"}
    /\ lpc'[p] # lpc[p]
    /\ lpc'[p] # "killed"

\* C17: release_lock removes the claim file only when the file records the
\* caller's own pid; otherwise (another pid, unreadable, absent) it leaves
\* the file as it is, whatever other processes do meanwhile.
C17_ReleaseOwnership ==
    [][\A p \in Procs :
        (ReleaseStep(p) /\ lockFile' # lockFile) =>
            /\ lockFile.exists
            /\ lockFile.content = p
      ]_vars

\* processes that returned (True, None) from acquire and have terminated
TerminatedOwners ==
    {p \in Procs : lpc[p] \in {"exited", "killed"} /\ result[p] = <<TRUE, None>>}

\* C18: once a process that acquired the lock has terminated, in whatever
\* way, the claim file does not record it as owner.
C18_ReleaseOnTermination ==
    \A p \in TerminatedOwners : ~(lockFile.exists /\ lockFile.content = p)

\* C19: with processes running one after the other, when the holder has
\* released the claim file is absent, and an acquire that follows is never
\* blocked: it returns (True, None), on its first attempt if no process was
\* killed, and the file records the new holder.
C19_AcquireReleaseAcquire ==
    /\ \A p \in Procs :
          (lpc[p] = "exited" /\ \A q \in Procs \ {p} : lpc[q] = "init") =>
              ~lockFile.exists
    /\ \A q \in Procs :
        /\ lpc[q] # "blocked"
        /\ lpc[q] \in {"acquired", "running"} =>
              /\ result[q] = <<TRUE, None>>
              /\ lockFile = ClaimOf(q)
              /\ ((\E p \in Procs : lpc[p] = "exited")
                    /\ (\A r \in Procs : lpc[r] # "killed")) => attempt[q] = 0

\* C19 witness: one process acquired and released, and the next one has
\* acquired on its first attempt
C19_Witness ==
    \E p, q \in Procs :
        /\ lpc[p] = "exited"
        /\ result[p] = <<TRUE, None>>
        /\ lpc[q] = "acquired"
        /\ attempt[q] = 0
        /\ result[q] = <<TRUE, None>>
        /\ lockFile = ClaimOf(q)

\* C20: a process whose acquire returned not-acquired writes exactly one
\* DUPLICATE_INSTANCE_BLOCKED event, carrying its own pid and the pid of the
\* blocking owner, and terminates with a non-zero exit status, on every
\* path that returns not-acquired.
C20_BlockedAudit ==
    [][\A p \in Procs :
        (lpc[p] = "blocked" /\ lpc'[p] \notin {"blocked", "killed"}) =>
            /\ Len(dupLog') = Len(dupLog) + 1
            /\ dupLog'[Len(dupLog')].current_pid = p
            /\ dupLog'[Len(dupLog')].existing_pid # None
            /\ lpc'[p] = "exited"
            /\ exitCode'[p] \notin {None, 0}
      ]_vars

\* processes whose acquire returned not-acquired
BlockedProcs == {p \in Procs : result[p][1] = FALSE /\ result[p] # NotReturned}

\* C21: a generator whose acquire is blocked never registers the release
\* hook and never gets past ensure_single_instance; every store operation
\* is made by a process that holds an Acquired result and has registered
\* its hook.
C21_BlockedNeverProceeds ==
    [][/\ \A p \in Procs :
            (result'[p][1] = FALSE /\ result'[p] # NotReturned) =>
                /\ p \notin hooks'
                /\ lpc'[p] \in {"blocked", "exited", "killed"}
       /\ intents' # intents =>
            \E p \in Procs \ BlockedProcs :
                /\ lpc[p] = "running"
                /\ result[p] = <<TRUE, None>>
                /\ p \in hooks
      ]_vars

\* C21 witness: one process was blocked and has exited, the store holds an
\* intent, inserted by the holder
C21_Witness ==
    \E p, q \in Procs :
        /\ lpc[p] = "exited"
        /\ result[p][1] = FALSE
        /\ exitCode[p] = 1
        /\ p \notin hooks
        /\ lpc[q] = "running"
        /\ intents # <<>>

\* a step of process p other than its being killed
StepOf(p) == lpc'[p] # lpc[p] /\ lpc'[p] # "killed"

\* C22: an acquire that finds the claim corrupted or unreadable unlinks it
\* and retries the create once; a collision on the retry returns
\* (False, None); acquire makes at most two create attempts and returns
\* (True, None) only after its own O_CREAT|O_EXCL created the file.
C22_CorruptedClaim ==
    [][\A p \in Procs :
        /\ (/\ lpc[p] = "read"
            /\ StepOf(p)
            /\ ~lockFile.exists \/ lockFile.content \in {Empty, Garbage}) =>
              /\ attempt[p] = 0
              /\ lpc'[p] = "unlink"
              /\ result'[p] = NotReturned
        /\ (lpc[p] = "unlink" /\ StepOf(p)) =>
              /\ lpc'[p] = "try"
              /\ attempt'[p] = 1
              /\ lockFile' \in {NoFile, lockFile}
        /\ (lpc[p] = "try" /\ attempt[p] = 1 /\ lockFile.exists /\ StepOf(p)) =>
              /\ lpc'[p] = "blocked"
              /\ result'[p] = <<FALSE, None>>
        /\ attempt'[p] \in {0, 1}
        /\ (lpc'[p] = "write" /\ lpc[p] # "write") =>
              /\ ~lockFile.exists
              /\ lockFile'.exists
              /\ lockFile'.creator = p
        /\ (result'[p][1] /\ ~result[p][1]) => lpc[p] = "write"
      ]_vars

\* C22 witness: started on a corrupted claim, a process has collided on its
\* second create attempt and holds a blocked result with unknown owner
C22_Witness ==
    \E p \in Procs :
        /\ lpc[p] = "blocked"
        /\ attempt[p] = 1
        /\ result[p] = <<FALSE, None>>
        /\ lockFile.exists

Terminal == {"SENT", "REJECTED", "PROCESSED"}

\* C23: the terminal status update does not overwrite: the stored status of
\* an intent that is already terminal is unchanged by a further update, and
\* no row is removed.
C23_MarkTerminalGuard ==
    [][\A i \in DOMAIN intents :
        intents[i].status \in Terminal =>
            /\ i \in DOMAIN intents'
            /\ intents'[i].status = intents[i].status
            /\ updCount'[i] = updCount[i]
      ]_vars

\* C24: whenever the gates are evaluated for an intent, buys_today equals
\* the number of SENT BUY intents whose trade_day is the current trading
\* day.
C24_CounterMatchesStore ==
    [][AdjStep =>
        buys_today = count_sent_buy_today(intents, get_kst_date(now))
      ]_vars

\* a step of the loop body in which a store statement raises
StorageErrorRaised ==
    /\ pc = "running"
    /\ rows # <<>>
    /\ ~ParseRaises(Cur, params)
    /\ engineExit' = 1

\* C25: a storage error raised while one intent is adjudicated aborts only
\* that intent: the engine stays in its loop and goes on with the next
\* intent of the batch.
C25_StorageErrorIsolated ==
    [][StorageErrorRaised =>
        /\ pc' = "running"
        /\ rows' = Tail(rows)
      ]_vars

\* a step of the loop body for an intent whose ts text is malformed: the
\* intent is adjudicated, or the parse of its ts raises
MalformedStep ==
    /\ pc = "running"
    /\ rows # <<>>
    /\ Cur.ts = Malformed
    /\ \/ intents'[Head(rows)] # intents[Head(rows)]
       \/ engineExit' = 1 /\ ParseRaises(Cur, params)

\* C26: an intent with malformed timestamp fields does not abort the cycle:
\* its latency is recorded as unknown, it reaches a terminal status, and
\* the engine goes on with the rest of the batch.
C26_MalformedTimestamp ==
    [][MalformedStep =>
        /\ pc' = "running"
        /\ rows' = Tail(rows)
        /\ intents'[Head(rows)].status \in Terminal
        /\ Outcome.latency_ms = None
      ]_vars

\* C27: whatever crashed, an intent is either NEW with no ExecutionRecord of
\* the engine or terminal with exactly one, of the same decision, and it was
\* passed to the broker at most once.
C27_CrashAtomicity ==
    \A i \in DOMAIN intents :
        /\ Placements(i) <= 1
        /\ intents[i].status = "NEW" =>
              /\ Adjudications(i) = 0
              /\ Placements(i) = 0
        /\ intents[i].status \in {"SENT", "REJECTED"} =>
              /\ Adjudications(i) = 1
              /\ \A k \in DOMAIN execution_log :
                    (execution_log[k].module = "APP32" /\ execution_log[k].intent = i)
                        => execution_log[k].decision = intents[i].status

\* a step of the administrative reset: it writes its audit event
ResetStep == resetLog' # resetLog

RefusedStep ==
    /\ pc = "stopped"
    /\ engineExit # 1
    /\ engineExit' = 1

\* C29: the reset never runs from the engine loop: rows go from SENT to
\* PROCESSED only in a reset step, and a reset step starts from a stopped
\* engine; a start with the flag and without the authorisation exits with a
\* non-zero status, changes no intent and does not start the loop.
C29_ResetAuthorisation ==
    [][/\ ResetStep => pc = "stopped"
       /\ (\E i \in DOMAIN intents :
              intents[i].status = "SENT" /\ intents'[i].status = "PROCESSED")
            => (ResetStep /\ pc = "stopped")
       /\ RefusedStep =>
            /\ intents' = intents
            /\ resetLog' = resetLog
            /\ pc' = "stopped"
      ]_vars

\* C29 witness: a start was refused while a SENT BUY of today was in the
\* store; the row is still SENT and no reset was recorded
C29_Witness ==
    /\ pc = "stopped"
    /\ engineExit = 1
    /\ resetLog = <<>>
    /\ \E i \in DOMAIN intents :
        /\ intents[i].status = "SENT"
        /\ intents[i].action = "BUY"
        /\ intents[i].trade_day = get_kst_date(now)

\* C30: init_schema is idempotent: from any prior schema state no call
\* raises, and after each further call the tables, columns, index and rows
\* are what they were after the first call.
C30_InitSchemaIdempotent ==
    /\ ~initRaised
    /\ \A k \in 2..(Len(schemaHist) - 1) : schemaHist[k + 1] = schemaHist[k]

\* C30 witness: two calls on legacy tables that lacked created_at, trade_day
\* and order_id; the first call added the columns and the index and
\* backfilled a row, the second changed nothing
C30_Witness ==
    /\ Len(schemaHist) >= 3
    /\ schemaHist[1].oi /\ schemaHist[1].oi_cols = {}
    /\ schemaHist[1].el /\ schemaHist[1].el_cols = {}
    /\ schemaHist[2].oi_cols = OptionalIntentCols
    /\ schemaHist[2].el_cols = OptionalLogCols
    /\ schemaHist[2].idx
    /\ \E k \in DOMAIN schemaHist[1].data :
        /\ schemaHist[1].data[k].trade_day = None
        /\ schemaHist[3].data[k].trade_day # None
    /\ schemaHist[3] = schemaHist[2]

\* ========================================================================
\* Properties of the signal generator
\* ========================================================================

\* a step of the generator's loop: one candidate went through the gates
GenStep == now' = now

\* the candidate of the step
Cand == lastCand'
CandKey == <<lastCand'.sym, lastCand'.action>>

\* the fate of the candidate, read from the store and the audit log
CandAccepted ==
    /\ Len(intents') = Len(intents) + 1
    /\ skipLog' = skipLog
CandSkipped(reason) ==
    /\ intents' = intents
    /\ skipLog' = Append(skipLog, reason)
    /\ Cand.reason = reason

\* the intents persisted less than BURST_GUARD_WINDOW_SEC ago, and whether
\* the pair was persisted less than DUPLICATE_COOLDOWN_SEC ago, by the store
RecentAcc(store, t) == {i \in DOMAIN store : t - store[i].created_at < BurstTicks}
PairRecent(store, key, t) ==
    \E i \in DOMAIN store :
        /\ store[i].symbol = key[1]
        /\ store[i].action = key[2]
        /\ t - store[i].created_at < DupTicks

\* the candidate passes the score and duplicate gates
Qualifies ==
    /\ Cand.score >= TEST_MODE_THRESHOLD
    /\ ~PairRecent(intents, CandKey, now)

\* C31: a qualifying candidate that finds BURST_GUARD_LIMIT signals persisted
\* within the last BURST_GUARD_WINDOW_SEC is rejected with the burst reason
\* and sets the deadline one window ahead; every qualifying candidate before
\* the deadline is rejected with the burst reason; a qualifying candidate
\* with fewer signals in the window and no running deadline is accepted, and
\* so is the first one at or after the deadline.
C31_BurstContainment ==
    [][(GenStep /\ Qualifies) =>
        LET full == Cardinality(RecentAcc(intents, now)) >= BURST_GUARD_LIMIT
            active == now < burst_guard_active_until
        IN  /\ (full \/ active) => CandSkipped("BURST_GUARD")
            /\ (full /\ ~active) => burst_guard_active_until' = now + BurstTicks
            /\ (~full /\ ~active) => CandAccepted
            /\ (~active /\ \A i \in DOMAIN intents :
                              intents[i].created_at < burst_guard_active_until)
                  => CandAccepted
      ]_vars

\* C31 witness: three signals inside one window, two burst rejections, and a
\* fourth signal at or after the deadline
C31_Witness ==
    /\ Len(intents) = 4
    /\ intents[3].created_at - intents[1].created_at < BurstTicks
    /\ skipLog = <<"BURST_GUARD", "BURST_GUARD">>
    /\ burst_guard_active_until > 0
    /\ intents[4].created_at >= burst_guard_active_until

C33_CooldownDiscardsAll ==
    [][(GenStep /\ now < burst_guard_active_until) => CandSkipped("BURST_GUARD")]_vars

\* C34: a signal is persisted only when its pair was not persisted within
\* the last DUPLICATE_COOLDOWN_SEC; a candidate whose pair was is discarded
\* with exactly one audit record of reason duplicate; and the duplicate
\* tracking time of a pair changes only when a candidate of that pair is
\* accepted.
C34_DuplicateCooldown ==
    [][GenStep =>
        /\ CandAccepted => ~PairRecent(intents, CandKey, now)
        /\ PairRecent(intents, CandKey, now) => CandSkipped("DUPLICATE_COOLDOWN")
        /\ recent_signal_ts' # recent_signal_ts =>
              /\ CandAccepted
              /\ recent_signal_ts' = [recent_signal_ts EXCEPT ![CandKey] = now]
      ]_vars

\* C35: a candidate below the score threshold leaves no audit record and no
\* intent and changes none of the duplicate map, the burst window, the burst
\* deadline and the symbol dedupe map; every intent is persisted with a
\* score at or above the threshold and with status NEW.
C35_ScoreGate ==
    [][GenStep =>
        /\ Cand.score < TEST_MODE_THRESHOLD =>
              /\ Cand.reason = "LOW_AI_SCORE"
              /\ UNCHANGED <<skipLog, intents, execution_log, recent_signal_ts,
                             signal_creation_times, burst_guard_active_until,
                             mock_last_seen>>
        /\ Len(intents') > Len(intents) =>
              /\ intents'[Len(intents')].ai_score >= TEST_MODE_THRESHOLD
              /\ intents'[Len(intents')].ai_score = Cand.score
              /\ intents'[Len(intents')].status = "NEW"
      ]_vars

\* C35 witness: a candidate below the threshold was discarded silently
\* while the burst cooldown was active
C35_Witness ==
    /\ lastCand.reason = "LOW_AI_SCORE"
    /\ lastCand.score < TEST_MODE_THRESHOLD
    /\ Len(intents) = 3
    /\ skipLog = <<"BURST_GUARD">>
    /\ now < burst_guard_active_until

\* the signals persisted in the window that starts with signal i
InWindowFrom(store, i) ==
    {j \in DOMAIN store :
        /\ store[j].created_at >= store[i].created_at
        /\ store[j].created_at - store[i].created_at < BurstTicks}

\* C40: no interval shorter than BURST_GUARD_WINDOW_SEC holds more than
\* BURST_GUARD_LIMIT persisted signals, and at the moment the burst deadline
\* passes no acceptance time is left inside the sliding window.
C40_BurstRateBound ==
    [][/\ \A i \in DOMAIN intents' :
            Cardinality(InWindowFrom(intents', i)) <= BURST_GUARD_LIMIT
       /\ (now < burst_guard_active_until /\ now' >= burst_guard_active_until) =>
            /\ \A k \in DOMAIN signal_creation_times' :
                    now' - signal_creation_times'[k] >= BurstTicks
            /\ RecentAcc(intents', now') = {}
      ]_vars

\* C40 witness: three signals in one window, a burst rejection, and the
\* clock at the deadline
C40_Witness ==
    /\ Len(intents) = 3
    /\ Cardinality(InWindowFrom(intents, 1)) = BURST_GUARD_LIMIT
    /\ skipLog # <<>>
    /\ now = burst_guard_active_until

\* ========================================================================
\* Properties of the simulation broker
\* ========================================================================

\* a place_order call and its arguments
CallStep == now' = now
Call == orderResult'
CallValid ==
    /\ Call.action \in {"BUY", "SELL"}
    /\ Call.quantity > 0
    /\ Call.symbol # ""

C37_AlwaysSucceeds ==
    [][(CallStep /\ CallValid) =>
        /\ Call.success
        /\ Len(execution_log') = Len(execution_log) + 1
        /\ LET row == execution_log'[Len(execution_log')]
           IN  /\ row.module = "BROKER"
               /\ row.symbol = Call.symbol
               /\ row.action = Call.action
               /\ row.order_id = Call.order_id
               /\ row.decision = "SENT"
        /\ \A k \in DOMAIN execution_log : execution_log[k].order_id # Call.order_id
      ]_vars

\* C37 witness: two orders placed in the same second
C37_Witness ==
    /\ Len(execution_log) = 2
    /\ execution_log[1].order_id[1] = execution_log[2].order_id[1]
    /\ execution_log[1].order_id # execution_log[2].order_id
    /\ orderResult.success

\* C38: no ledger quantity is negative; a valid BUY of q adds q to the
\* symbol's quantity, a valid SELL of q leaves max(0, quantity - q), an
\* invalid call changes nothing, and no call changes another symbol.
C38_LedgerNonNegative ==
    [][CallStep =>
        /\ \A sym \in DOMAIN mock_positions' : mock_positions'[sym] >= 0
        /\ \A sym \in DOMAIN mock_positions :
              mock_positions'[sym] =
                IF ~CallValid \/ sym # Call.symbol THEN mock_positions[sym]
                ELSE IF Call.action = "BUY" THEN mock_positions[sym] + Call.quantity
                ELSE IF mock_positions[sym] >= Call.quantity
                     THEN mock_positions[sym] - Call.quantity
                     ELSE 0
      ]_vars

\* C38 witness: a SELL of 2 on a symbol that held 1 left 0, the other symbol
\* still holds its quantity
C38_Witness ==
    /\ orderResult.action = "SELL"
    /\ orderResult.quantity = 2
    /\ orderResult.symbol = "005930"
    /\ orderResult.success
    /\ mock_positions["005930"] = 0
    /\ mock_positions["000660"] = 1
    /\ order_counter = 3
    /\ Cardinality({k \in DOMAIN execution_log :
                       execution_log[k].symbol = "005930"
                       /\ execution_log[k].action = "BUY"}) = 1

\* ========================================================================
\* Progress of the engine
\* ========================================================================

\* C39: every intent that is NEW is terminal at some later time, whatever
\* the generator inserts meanwhile; and within a cycle each fetched intent is
\* terminal when its turn is over, and stays terminal.
C39_EveryIntentAdjudicated ==
    /\ \A i \in 1..MaxIntents :
          (i \in DOMAIN intents /\ intents[i].status = "NEW")
              ~> (i \in DOMAIN intents /\ intents[i].status \in Terminal)
    /\ [][/\ (rows # <<>> /\ rows' # rows) =>
                /\ rows' = Tail(rows)
                /\ intents'[Head(rows)].status \in Terminal
           /\ \A i \in DOMAIN intents :
                intents[i].status \in Terminal => intents'[i].status \in Terminal
          ]_vars

\* C39 witness: a cycle is over, one intent was sent and one was rejected,
\* the second inserted after the first was adjudicated
C39_Witness ==
    /\ pc = "running"
    /\ rows = <<>>
    /\ Len(intents) = MaxIntents
    /\ intents[1].status = "SENT"
    /\ intents[MaxIntents].status = "REJECTED"
    /\ intents[MaxIntents].created_at > intents[1].created_at

====
